---- MODULE Spec2Model ----
(***************************************************************************)
(* The ESP32 LoRa environment monitor.  Gateway: boot, the receive /       *)
(* validate / deduplicate / batch / forward pipeline and the cooperative   *)
(* loop that drives it.  Sensor node: the value encoders, the adaptive     *)
(* send decision, the retry loop and the cycle with its sleep.             *)
(*                                                                         *)
(* Times are milliseconds of millis().  The modelled horizon (MaxTime) is  *)
(* far below 2^32, so the unsigned subtractions of the source never wrap   *)
(* here and are written as plain differences.                              *)
(***************************************************************************)
EXTENDS Integers, Sequences, FiniteSets, TLC

(***************************************************************************)
(* Program constants                                                       *)
(***************************************************************************)
BATCH_SIZE == 5
BATCH_TIMEOUT_MS == 30000
LORA_MAX_PACKET_SIZE == 256
MSG_TYPE_SENSOR_DATA == 1
MSG_TYPE_HEARTBEAT == 2
MSG_TYPE_ALERT == 3
NODE_ID == 23
TX_INTERVAL_MS == 30000
TX_MAX_RETRIES == 3
HUMIDITY_CHANGE_THRESHOLD == 2
DISTANCE_CHANGE_THRESHOLD == 10
HTTP_CODE_OK == 200
HTTP_CODE_CREATED == 201

\* Not defined in any header of the tree: capacity of the dedup table and
\* the length of the duplicate window (the design leaves both tunable).
MAX_CLIENTS == 2
DUPLICATE_WINDOW_MS == 20000

(***************************************************************************)
(* Bounds of the model                                                     *)
(***************************************************************************)
TickMs == 10000
MaxTime == 60000
MaxFrames == 4
MaxFramesSteady == 6
RxUntil == 20000
MaxFramesMixed == 1
MaxFramesFields == 1
EncodeSpan == 60
MaxCycles == 3
MaxCycleIndex == 21
CounterHeadroom == 1
MaxFramesFaulty == 3
MaxFramesTyped == 3
MaxFramesRadio == 3
MaxFramesWrap == 3
WrapLead == 15000
PostSpread == 660
RxUntilSteady == MaxTime - BATCH_TIMEOUT_MS - TickMs

(***************************************************************************)
(* Codec: packed little-endian structs and the XOR checksum                *)
(***************************************************************************)
LE16(v) == << v % 256, (v \div 256) % 256 >>

LE32(v) == << v % 256, (v \div 256) % 256, (v \div 65536) % 256, (v \div 16777216) % 256 >>

\* data[off..off+3] read back as a uint32 (off is a 0-based byte offset).
ReadLE32(data, off) ==
    data[off + 1] + 256 * data[off + 2] + 65536 * data[off + 3] + 16777216 * data[off + 4]

\* data[off..off+1] read back as a uint16 and as an int16.
ReadLE16(data, off) == data[off + 1] + 256 * data[off + 2]

\* The int16 field read as if it were unsigned.
ReadS16_unsigned(data, off) == ReadLE16(data, off)

ReadS16(data, off) ==
    IF ReadLE16(data, off) >= 32768 THEN ReadLE16(data, off) - 65536 ELSE ReadLE16(data, off)

RECURSIVE XorBits(_, _, _)
XorBits(a, b, n) ==
    IF n = 0 THEN 0
    ELSE (((a % 2) + (b % 2)) % 2) + 2 * XorBits(a \div 2, b \div 2, n - 1)

Xor8(a, b) == XorBits(a, b, 8)

\* checksum ^= data[i] for i in 0 .. length-2
RECURSIVE XorUpTo(_, _)
XorUpTo(data, n) == IF n = 0 THEN 0 ELSE Xor8(XorUpTo(data, n - 1), data[n])

calculate_checksum(data, length) == XorUpTo(data, length - 1)

verify_checksum(data, length) == calculate_checksum(data, length) = data[length]

\* Byte image of the packed structs without the trailing checksum byte.
SensorDataBody(client_id, timestamp, temperature, humidity, distance_cm, battery, luminosity_lux) ==
    << MSG_TYPE_SENSOR_DATA, client_id >> \o LE32(timestamp) \o LE16(temperature)
       \o LE16(humidity) \o LE16(distance_cm) \o << battery >> \o LE16(luminosity_lux) \o << 0 >>

HeartbeatBody(client_id, timestamp, status) ==
    << MSG_TYPE_HEARTBEAT, client_id >> \o LE32(timestamp) \o << status >>

AlertBody(client_id, timestamp, alert_code, alert_value, severity) ==
    << MSG_TYPE_ALERT, client_id >> \o LE32(timestamp) \o << alert_code >>
       \o LE16(alert_value) \o << severity, 0 >>

\* msg.checksum = calculate_checksum(&msg, sizeof(msg))
WithChecksum(body) == Append(body, calculate_checksum(body \o << 0 >>, Len(body) + 1))

SIZEOF_SensorDataMessage == Len(SensorDataBody(0, 0, 0, 0, 0, 0, 0)) + 1
SIZEOF_HeartbeatMessage == Len(HeartbeatBody(0, 0, 0)) + 1
SIZEOF_AlertMessage == Len(AlertBody(0, 0, 0, 0, 0)) + 1

\* The frame a node builds for one reading (values of the reference reading:
\* 25.30 C, 55.00 %, 150 cm, battery 100, 500 lux).
SensorFrame(client_id, timestamp) ==
    WithChecksum(SensorDataBody(client_id, timestamp, 2530, 5500, 150, 100, 500))

HeartbeatFrame(client_id, timestamp) == WithChecksum(HeartbeatBody(client_id, timestamp, 0))

AlertFrame(client_id, timestamp) == WithChecksum(AlertBody(client_id, timestamp, 32, 9000, 2))

\* One byte of a frame replaced by another value.
Corrupt(data, i) == [data EXCEPT ![i] = (data[i] + 1) % 256]

\* The byte at position i of a frame replaced by v.
Replace(data, i, v) == [data EXCEPT ![i] = v]

\* The first n bytes of a frame.
Truncate(data, n) == SubSeq(data, 1, n)


(***************************************************************************)
(* uint32_t                                                                *)
(***************************************************************************)
\* A uint32_t is held as its 32-bit pattern read as a two's-complement
\* integer: 0 .. 2^31 - 1 are themselves, 2^31 .. 2^32 - 1 are the negative
\* numbers, and x + 1 wraps from UINT32_MAX to 0 as the machine does.
UINT32_MAX == -1

\* a < b on uint32_t.
U32Less(a, b) == IF (a >= 0) = (b >= 0) THEN a < b ELSE a >= 0

\* a - b on uint32_t: the difference modulo 2^32.
U32Sub(a, b) ==
    IF (a >= 0) = (b >= 0) THEN a - b
    ELSE IF a >= 0
    THEN IF a <= 2147483647 + b THEN a - b
         ELSE ((a - 2147483647 - 1) - b) - 2147483647 - 1
    ELSE IF a >= b - 2147483647 - 1 THEN a - b
         ELSE ((a + 2147483647 + 1) - b) + 2147483647 + 1

Min(S) == CHOOSE x \in S : \A y \in S : x <= y

\* Durations of a POST, in ms.
PostDurations == {40, 40 + PostSpread}

(***************************************************************************)
(* State                                                                   *)
(***************************************************************************)
VARIABLES
    now,                \* millis()
    wifi_link,          \* WiFi.isConnected(): the link as the driver sees it
    wifi_connected,     \* wifi.cpp: bool wifi_connected
    last_packets,       \* processing.cpp: LastPacket last_packets[MAX_CLIENTS]
    rx_duplicate_count, \* processing.cpp: rx_duplicate_count
    stats,              \* LoRaRadio::Stats
    batch_buffer,       \* batch.cpp: String batch_buffer[BATCH_SIZE]
    batch_count,        \* batch.cpp: uint8_t batch_count
    batch_start_time,   \* batch.cpp: uint32_t batch_start_time
    server_stats,       \* wifi.cpp: server_stats
    latency,            \* wifi.cpp: latency
    post_ms,            \* how long a POST started now takes, in ms
    radio,              \* the SX1262: "boot" before begin(), "receive" after
                        \* startReceive, "halted" in the endless loop of a failed setup
    status_code,        \* LoRaRadio::setup: int status_code / init_lora_radio: int result
    \* ---- history, not read by the program ----
    nframes,            \* packets the radio has completed so far
    added,              \* records passed to add_to_batch, in call order
    forwarded,          \* batches passed to forward_to_server, in call order
    ev,                 \* what the last iteration of loop() that did anything did
    seen,               \* keys that have been presented to is_duplicate
    cur,                \* per node: key and time of its standing Fresh admission
    prev_key,           \* key of the preceding is_duplicate call
    rx,                 \* the last completed reception the radio presented
    sampled,            \* the latencies recorded as samples so far
    \* ---- value encoding ----
    encoded,            \* an input of encode_temperature / encode_humidity and
                        \* what the two calls returned for it
    \* ---- sensor node (client/src/main.cpp) ----
    build,              \* ADAPTIVE_TX_ENABLED and DEEP_SLEEP_ENABLED of the node's build
    pc,                 \* where the node is: "off", "setup", "loop", "retry", "sleep"
    node_now,           \* the node's millis()
    g_boot_count,       \* RTC_DATA_ATTR uint32_t g_boot_count
    g_prev_humidity,    \* static float g_prev_humidity, in thousandths
    g_prev_distance,    \* static float g_prev_distance, in thousandths
    g_tx_stats,         \* g_tx_stats
    g_lora_ready,       \* static bool g_lora_ready
    reading,            \* loop(): humidity, distance, temperature, luminosity
    should_send,        \* loop(): bool should_send
    msg,                \* transmit_sensor_data(): SensorDataMessage msg
    attempt,            \* transmit_sensor_data(): int attempt
    \* ---- history of the node, not read by the program ----
    cycles,             \* iterations of loop() begun since first power-on
    calls,              \* this cycle's g_radio.transmit calls: buffer and result
    returned,           \* what transmit_sensor_data returned in this cycle
    at_start,           \* g_tx_stats when this cycle began
    sent                \* the reading last transmitted successfully, or the
                        \* initial reading of the first boot

\* The state outside the gateway's receive pipeline.
nodestate == << build, pc, node_now, g_boot_count, g_prev_humidity, g_prev_distance,
                g_tx_stats, g_lora_ready, reading, should_send, msg, attempt,
                cycles, calls, returned, at_start, sent >>

nodevars == << encoded, nodestate >>

gwvars == << now, wifi_link, wifi_connected, last_packets, rx_duplicate_count, stats,
             batch_buffer, batch_count, batch_start_time, server_stats, latency, post_ms, sampled,
                    radio, status_code,
             nframes, added, forwarded, ev, seen, cur, prev_key, rx >>

vars == << now, wifi_link, wifi_connected, last_packets, rx_duplicate_count, stats,
           batch_buffer, batch_count, batch_start_time, server_stats, latency, post_ms, sampled,
                    radio, status_code,
           nframes, added, forwarded, ev, seen, cur, prev_key, rx, nodevars >>

Slots == 0 .. (MAX_CLIENTS - 1)

\* An empty String of the batch buffer.
EmptyString ==
    [client_id |-> -1, timestamp |-> -1, temperature |-> -1, humidity |-> -1,
     distance_cm |-> -1, luminosity_lux |-> -1, presence |-> FALSE, battery |-> -1]

NoKey == << -1, -1 >>
NoAdmission == [timestamp |-> -1, at |-> -1]

\* verdict: what check_packets made of the packet; handled: handle_sensor_data
\* was called; batched: add_to_batch was called; capacity / timeout: a flush of
\* that kind ran; age: millis() - batch_start_time read by the timeout test;
\* verified: verify_checksum was evaluated; json: the document that
\* handle_sensor_data built.
NoEvent == [verdict |-> "idle", key |-> NoKey, handled |-> FALSE, batched |-> FALSE,
            capacity |-> FALSE, timeout |-> FALSE, age |-> -1, reconnect |-> FALSE,
            verified |-> FALSE, json |-> EmptyString, posted |-> "none"]

\* The gateway state as one record, threaded through the calls of an iteration.
Gateway ==
    [wifi_link |-> wifi_link, wifi_connected |-> wifi_connected, last_packets |-> last_packets,
     rx_duplicate_count |-> rx_duplicate_count, stats |-> stats, batch_buffer |-> batch_buffer,
     batch_count |-> batch_count, batch_start_time |-> batch_start_time,
     server_stats |-> server_stats, latency |-> latency, post_ms |-> post_ms,
     sampled |-> sampled, radio |-> radio, added |-> added, forwarded |-> forwarded, ev |-> NoEvent,
     seen |-> seen, cur |-> cur, prev_key |-> prev_key]

\* The live prefix of a batch buffer as a sequence, oldest record first.
Prefix(buf, count) == [i \in 1 .. count |-> buf[i - 1]]

OpenBatch == Prefix(batch_buffer, batch_count)

RECURSIVE Flatten(_)
Flatten(batches) ==
    IF batches = << >> THEN << >>
    ELSE Flatten(SubSeq(batches, 1, Len(batches) - 1)) \o batches[Len(batches)].recs

(***************************************************************************)
(* Deduplicator: is_duplicate(client_id, timestamp)                        *)
(***************************************************************************)
\* First slot whose client_id equals the argument, or -1.
FindSlot(table, client_id) ==
    IF \E i \in Slots : table[i].client_id = client_id
    THEN CHOOSE i \in Slots : /\ table[i].client_id = client_id
                              /\ \A j \in Slots : table[j].client_id = client_id => i <= j
    ELSE -1

\* InsertSlot replacing the least recently updated entry of a full table.
InsertSlot_lru(table) ==
    IF FindSlot(table, 0) >= 0 THEN FindSlot(table, 0)
    ELSE CHOOSE i \in Slots :
             \A j \in Slots : \/ table[i].rx_time < table[j].rx_time
                              \/ (table[i].rx_time = table[j].rx_time /\ i <= j)

\* Slot that receives a client that is not in the table: the first empty one
\* (client_id == 0), else the first slot.
InsertSlot(table) == IF FindSlot(table, 0) >= 0 THEN FindSlot(table, 0) ELSE 0

\* The age test written <= instead of <.
WithinWindow_inclusive(entry, t) == (t - entry.rx_time) <= DUPLICATE_WINDOW_MS

\* The age test with the operands of the unsigned subtraction swapped: the
\* difference wraps to a huge value whenever the entry is older than t.
WithinWindow_swapped(entry, t) ==
    IF entry.rx_time >= t THEN (entry.rx_time - t) < DUPLICATE_WINDOW_MS ELSE FALSE

\* The age test written as a comparison of now with the end of the window.
WithinWindow_deadline(entry, t) == U32Less(t, entry.rx_time + DUPLICATE_WINDOW_MS)

\* The age test of a stored entry: (now - rx_time) < DUPLICATE_WINDOW_MS on
\* uint32_t.
WithinWindow(entry, t) == U32Less(U32Sub(t, entry.rx_time), DUPLICATE_WINDOW_MS)

\* is_duplicate comparing the node alone: any frame of a node within the
\* window of its entry is a duplicate.
is_duplicate_by_node(table, client_id, timestamp, t) ==
    LET i == FindSlot(table, client_id) IN
    /\ i >= 0
    /\ WithinWindow(table[i], t)

\* Return value of is_duplicate.
is_duplicate(table, client_id, timestamp, t) ==
    LET i == FindSlot(table, client_id) IN
    /\ i >= 0
    /\ table[i].timestamp = timestamp
    /\ WithinWindow(table[i], t)

\* is_duplicate refreshing the arrival time of the entry on a duplicate.
is_duplicate_table_refresh(table, client_id, timestamp, t) ==
    LET i == FindSlot(table, client_id)
        e == [client_id |-> client_id, timestamp |-> timestamp, rx_time |-> t]
    IN  IF i >= 0 THEN [table EXCEPT ![i] = e]
        ELSE [table EXCEPT ![InsertSlot(table)] = e]

\* is_duplicate without the final overwrite of a full table.
is_duplicate_table_keep_full(table, client_id, timestamp, t) ==
    LET i == FindSlot(table, client_id)
        e == [client_id |-> client_id, timestamp |-> timestamp, rx_time |-> t]
    IN  IF i >= 0
        THEN IF is_duplicate(table, client_id, timestamp, t) THEN table
             ELSE [table EXCEPT ![i] = e]
        ELSE IF FindSlot(table, 0) >= 0 THEN [table EXCEPT ![FindSlot(table, 0)] = e]
             ELSE table

\* The table after is_duplicate returned.
is_duplicate_table(table, client_id, timestamp, t) ==
    LET i == FindSlot(table, client_id)
        e == [client_id |-> client_id, timestamp |-> timestamp, rx_time |-> t]
    IN  IF i >= 0
        THEN IF is_duplicate(table, client_id, timestamp, t) THEN table
             ELSE [table EXCEPT ![i] = e]
        ELSE [table EXCEPT ![InsertSlot(table)] = e]

(***************************************************************************)
(* Forwarder and batcher                                                   *)
(***************************************************************************)
\* record_sample with the test for a new minimum turned round.
record_sample_min_above(g) ==
    LET last == g.latency.last_ms IN
    [g EXCEPT !.latency.total_ms = @ + last,
              !.latency.samples = @ + 1,
              !.latency.min_ms = IF U32Less(@, last) THEN last ELSE @,
              !.latency.max_ms = IF U32Less(@, last) THEN last ELSE @,
              !.sampled = @ \cup {last}]

\* The latency bookkeeping of forward_to_server for a POST that got an HTTP
\* response.
record_sample(g) ==
    LET last == g.latency.last_ms IN
    [g EXCEPT !.latency.total_ms = @ + last,
              !.latency.samples = @ + 1,
              !.latency.min_ms = IF U32Less(last, @) THEN last ELSE @,
              !.latency.max_ms = IF U32Less(@, last) THEN last ELSE @,
              !.sampled = @ \cup {last}]

\* forward_to_server: nothing while wifi_connected is false; otherwise one
\* POST, counted in server_stats.  http_code <= 0 is a failed request.
forward_to_server(g, http_code) ==
    IF ~g.wifi_connected THEN [g EXCEPT !.ev.posted = "skipped"]
    ELSE LET p == [g EXCEPT !.latency.last_ms = g.post_ms, !.server_stats.total = @ + 1] IN
         IF http_code > 0
         THEN IF http_code = HTTP_CODE_OK \/ http_code = HTTP_CODE_CREATED
              THEN [record_sample(p) EXCEPT !.server_stats.success = @ + 1,
                                            !.ev.posted = "success"]
              ELSE [record_sample(p) EXCEPT !.server_stats.failed = @ + 1,
                                            !.ev.posted = "error"]
         ELSE [p EXCEPT !.server_stats.failed = @ + 1, !.ev.posted = "failed"]

\* flush_batch without the reset of batch_count.
flush_batch_no_reset(g, http_code, cause) ==
    IF g.batch_count = 0 THEN g
    ELSE LET batch == [recs |-> Prefix(g.batch_buffer, g.batch_count), cause |-> cause]
         IN  forward_to_server([g EXCEPT !.forwarded = Append(@, batch)], http_code)

\* flush_batch keeping the batch for another attempt unless the POST succeeded.
flush_batch_requeue(g, http_code, cause) ==
    IF g.batch_count = 0 THEN g
    ELSE LET batch == [recs |-> Prefix(g.batch_buffer, g.batch_count), cause |-> cause]
             f     == forward_to_server([g EXCEPT !.forwarded = Append(@, batch)], http_code)
         IN  IF f.ev.posted = "success"
             THEN [f EXCEPT !.batch_count = 0, !.batch_start_time = 0]
             ELSE f

\* flush_batch: hands the open batch to forward_to_server and empties it.
flush_batch(g, http_code, cause) ==
    IF g.batch_count = 0 THEN g
    ELSE LET batch == [recs |-> Prefix(g.batch_buffer, g.batch_count), cause |-> cause]
             f     == forward_to_server([g EXCEPT !.forwarded = Append(@, batch)], http_code)
         IN  [f EXCEPT !.batch_count = 0, !.batch_start_time = 0]

\* add_to_batch with the capacity test written > instead of >=.
add_to_batch_late(g, json, http_code) ==
    LET a == [g EXCEPT !.batch_start_time = IF g.batch_count = 0 THEN now ELSE @,
                       !.batch_buffer[g.batch_count] = json,
                       !.batch_count = @ + 1,
                       !.added = Append(@, json),
                       !.ev.batched = TRUE]
    IN  IF a.batch_count > BATCH_SIZE
        THEN flush_batch([a EXCEPT !.ev.capacity = TRUE], http_code, "capacity")
        ELSE a

\* add_to_batch without the flush of a full batch.
add_to_batch_unbounded(g, json, http_code) ==
    [g EXCEPT !.batch_start_time = IF g.batch_count = 0 THEN now ELSE @,
              !.batch_buffer[g.batch_count] = json,
              !.batch_count = @ + 1,
              !.added = Append(@, json),
              !.ev.batched = TRUE]

\* add_to_batch writing batch_start_time on every add.
add_to_batch_restamp(g, json, http_code) ==
    LET a == [g EXCEPT !.batch_start_time = now,
                       !.batch_buffer[g.batch_count] = json,
                       !.batch_count = @ + 1,
                       !.added = Append(@, json),
                       !.ev.batched = TRUE]
    IN  IF a.batch_count >= BATCH_SIZE
        THEN flush_batch([a EXCEPT !.ev.capacity = TRUE], http_code, "capacity")
        ELSE a

\* add_to_batch: stamps the batch on its first record, appends, and flushes
\* when the batch is full.
add_to_batch(g, json, http_code) ==
    LET a == [g EXCEPT !.batch_start_time = IF g.batch_count = 0 THEN now ELSE @,
                       !.batch_buffer[g.batch_count] = json,
                       !.batch_count = @ + 1,
                       !.added = Append(@, json),
                       !.ev.batched = TRUE]
    IN  IF a.batch_count >= BATCH_SIZE
        THEN flush_batch([a EXCEPT !.ev.capacity = TRUE], http_code, "capacity")
        ELSE a

MAX_DISTANCE_TO_BE_PRESENCE_CM == 100

\* The JSON document of one reading: the fields of the SensorDataMessage that
\* data points to.  Temperature and humidity stay in hundredths, which is
\* what decode_temperature and decode_humidity divide by 100.
build_sensor_json(data) ==
    [client_id |-> data[2], timestamp |-> ReadLE32(data, 2),
     temperature |-> ReadS16(data, 6), humidity |-> ReadLE16(data, 8),
     distance_cm |-> ReadLE16(data, 10), luminosity_lux |-> ReadLE16(data, 13),
     presence |-> ReadLE16(data, 10) < MAX_DISTANCE_TO_BE_PRESENCE_CM,
     battery |-> data[13]]

\* handle_sensor_data: the reading is batched only while wifi_connected.
handle_sensor_data(g, data, http_code) ==
    LET h == [g EXCEPT !.ev.handled = TRUE, !.ev.json = build_sensor_json(data)] IN
    IF h.wifi_connected THEN add_to_batch(h, build_sensor_json(data), http_code) ELSE h

(***************************************************************************)
(* Gateway receiver: process_rx_lora_message                               *)
(***************************************************************************)
\* The history of admissions after is_duplicate judged (client_id, timestamp).
NoteCall(g, client_id, timestamp, dup) ==
    [g EXCEPT !.seen = @ \cup {<< client_id, timestamp >>},
              !.prev_key = << client_id, timestamp >>,
              !.ev.key = << client_id, timestamp >>,
              !.cur = IF dup
                      THEN {c \in @ : c.client_id # client_id \/ c.timestamp = timestamp}
                      ELSE {c \in @ : c.client_id # client_id} \cup
                               {[client_id |-> client_id, timestamp |-> timestamp, at |-> now]}]

\* process_rx_lora_message with the length tests of the short messages written
\* <= instead of ==.
process_rx_lora_message_short(g, data, http_code) ==
    LET length == Len(data)
        id     == data[2]
        ts     == ReadLE32(data, 2)
        v      == [g EXCEPT !.ev.verified = TRUE]
        dup    == is_duplicate(g.last_packets, id, ts, now)
        d      == NoteCall([v EXCEPT !.last_packets = is_duplicate_table(@, id, ts, now)],
                           id, ts, dup)
        Invalid(s) == [s EXCEPT !.stats.total_rx_invalids = @ + 1, !.ev.verdict = "invalid"]
        Valid(s, w) == [s EXCEPT !.stats.total_rx_valids = @ + 1, !.ev.verdict = w]
    IN  IF length < 1 THEN Invalid(g)
        ELSE IF data[1] = MSG_TYPE_SENSOR_DATA
        THEN IF length = SIZEOF_SensorDataMessage
             THEN IF verify_checksum(data, length)
                  THEN IF dup
                       THEN [d EXCEPT !.rx_duplicate_count = @ + 1, !.ev.verdict = "duplicate"]
                       ELSE LET h == handle_sensor_data(d, data, http_code)
                            IN  [h EXCEPT !.stats.total_rx_valids = @ + 1, !.ev.verdict = "fresh"]
                  ELSE [v EXCEPT !.stats.total_checksum_errors = @ + 1,
                                 !.stats.total_rx_invalids = @ + 1, !.ev.verdict = "checksum"]
             ELSE Invalid(g)
        ELSE IF data[1] = MSG_TYPE_HEARTBEAT
        THEN IF length <= SIZEOF_HeartbeatMessage
             THEN IF verify_checksum(data, length) THEN Valid(v, "heartbeat") ELSE Invalid(v)
             ELSE Invalid(g)
        ELSE IF data[1] = MSG_TYPE_ALERT
        THEN IF length <= SIZEOF_AlertMessage
             THEN IF verify_checksum(data, length) THEN Valid(v, "alert") ELSE Invalid(v)
             ELSE Invalid(g)
        ELSE Invalid(g)

\* process_rx_lora_message asking is_duplicate before it verifies the checksum
\* of a SensorData frame.
process_rx_lora_message_admit_first(g, data, http_code) ==
    LET length == Len(data)
        id     == data[2]
        ts     == ReadLE32(data, 2)
        v      == [g EXCEPT !.ev.verified = TRUE]
        dup    == is_duplicate(g.last_packets, id, ts, now)
        d      == NoteCall([v EXCEPT !.last_packets = is_duplicate_table(@, id, ts, now)],
                           id, ts, dup)
        Invalid(s) == [s EXCEPT !.stats.total_rx_invalids = @ + 1, !.ev.verdict = "invalid"]
        Valid(s, w) == [s EXCEPT !.stats.total_rx_valids = @ + 1, !.ev.verdict = w]
    IN  IF length < 1 THEN Invalid(g)
        ELSE IF data[1] = MSG_TYPE_SENSOR_DATA
        THEN IF length = SIZEOF_SensorDataMessage
             THEN IF verify_checksum(data, length)
                  THEN IF dup
                       THEN [d EXCEPT !.rx_duplicate_count = @ + 1, !.ev.verdict = "duplicate"]
                       ELSE LET h == handle_sensor_data(d, data, http_code)
                            IN  [h EXCEPT !.stats.total_rx_valids = @ + 1, !.ev.verdict = "fresh"]
                  ELSE [d EXCEPT !.stats.total_checksum_errors = @ + 1,
                                 !.stats.total_rx_invalids = @ + 1, !.ev.verdict = "checksum"]
             ELSE Invalid(g)
        ELSE IF data[1] = MSG_TYPE_HEARTBEAT
        THEN IF length = SIZEOF_HeartbeatMessage
             THEN IF verify_checksum(data, length) THEN Valid(v, "heartbeat") ELSE Invalid(v)
             ELSE Invalid(g)
        ELSE IF data[1] = MSG_TYPE_ALERT
        THEN IF length = SIZEOF_AlertMessage
             THEN IF verify_checksum(data, length) THEN Valid(v, "alert") ELSE Invalid(v)
             ELSE Invalid(g)
        ELSE Invalid(g)

\* process_rx_lora_message passing Heartbeat and Alert frames through
\* is_duplicate as well.
process_rx_lora_message_dedup_all(g, data, http_code) ==
    LET length == Len(data)
        id     == data[2]
        ts     == ReadLE32(data, 2)
        v      == [g EXCEPT !.ev.verified = TRUE]
        dup    == is_duplicate(g.last_packets, id, ts, now)
        d      == NoteCall([v EXCEPT !.last_packets = is_duplicate_table(@, id, ts, now)],
                           id, ts, dup)
        Invalid(s) == [s EXCEPT !.stats.total_rx_invalids = @ + 1, !.ev.verdict = "invalid"]
        Valid(s, w) == [s EXCEPT !.stats.total_rx_valids = @ + 1, !.ev.verdict = w]
    IN  IF length < 1 THEN Invalid(g)
        ELSE IF data[1] = MSG_TYPE_SENSOR_DATA
        THEN IF length = SIZEOF_SensorDataMessage
             THEN IF verify_checksum(data, length)
                  THEN IF dup
                       THEN [d EXCEPT !.rx_duplicate_count = @ + 1, !.ev.verdict = "duplicate"]
                       ELSE LET h == handle_sensor_data(d, data, http_code)
                            IN  [h EXCEPT !.stats.total_rx_valids = @ + 1, !.ev.verdict = "fresh"]
                  ELSE [v EXCEPT !.stats.total_checksum_errors = @ + 1,
                                 !.stats.total_rx_invalids = @ + 1, !.ev.verdict = "checksum"]
             ELSE Invalid(g)
        ELSE IF data[1] = MSG_TYPE_HEARTBEAT
        THEN IF length = SIZEOF_HeartbeatMessage
             THEN IF verify_checksum(data, length) THEN Valid(d, "heartbeat") ELSE Invalid(v)
             ELSE Invalid(g)
        ELSE IF data[1] = MSG_TYPE_ALERT
        THEN IF length = SIZEOF_AlertMessage
             THEN IF verify_checksum(data, length) THEN Valid(d, "alert") ELSE Invalid(v)
             ELSE Invalid(g)
        ELSE Invalid(g)

process_rx_lora_message(g, data, http_code) ==
    LET length == Len(data)
        id     == data[2]
        ts     == ReadLE32(data, 2)
        v      == [g EXCEPT !.ev.verified = TRUE]
        dup    == is_duplicate(g.last_packets, id, ts, now)
        d      == NoteCall([v EXCEPT !.last_packets = is_duplicate_table(@, id, ts, now)],
                           id, ts, dup)
        Invalid(s) == [s EXCEPT !.stats.total_rx_invalids = @ + 1, !.ev.verdict = "invalid"]
        Valid(s, w) == [s EXCEPT !.stats.total_rx_valids = @ + 1, !.ev.verdict = w]
    IN  IF length < 1 THEN Invalid(g)
        ELSE IF data[1] = MSG_TYPE_SENSOR_DATA
        THEN IF length = SIZEOF_SensorDataMessage
             THEN IF verify_checksum(data, length)
                  THEN IF dup
                       THEN [d EXCEPT !.rx_duplicate_count = @ + 1, !.ev.verdict = "duplicate"]
                       ELSE LET h == handle_sensor_data(d, data, http_code)
                            IN  [h EXCEPT !.stats.total_rx_valids = @ + 1, !.ev.verdict = "fresh"]
                  ELSE [v EXCEPT !.stats.total_checksum_errors = @ + 1,
                                 !.stats.total_rx_invalids = @ + 1, !.ev.verdict = "checksum"]
             ELSE Invalid(g)
        ELSE IF data[1] = MSG_TYPE_HEARTBEAT
        THEN IF length = SIZEOF_HeartbeatMessage
             THEN IF verify_checksum(data, length) THEN Valid(v, "heartbeat") ELSE Invalid(v)
             ELSE Invalid(g)
        ELSE IF data[1] = MSG_TYPE_ALERT
        THEN IF length = SIZEOF_AlertMessage
             THEN IF verify_checksum(data, length) THEN Valid(v, "alert") ELSE Invalid(v)
             ELSE Invalid(g)
        ELSE Invalid(g)

(***************************************************************************)
(* LoRaRadio::check_packets                                                *)
(***************************************************************************)
RADIOLIB_ERR_NONE == 0
RADIOLIB_ERR_CRC_MISMATCH == -7
RSSI_LIMIT == -20

\* A packet is the bytes of a completed reception, the result of readData and
\* the signal level; NoPacket stands for RX_DONE not being set.
NoPacket == [data |-> << >>, state |-> 1, rssi |-> 0]

Packet(data, state, rssi) == [data |-> data, state |-> state, rssi |-> rssi]

\* lora_handler.startReceive()
startReceive(g) == [g EXCEPT !.radio = "receive"]

\* RX_DONE is set: the radio holds a completed reception and receives nothing
\* more until startReceive is called.
RxDone(g) == [g EXCEPT !.radio = "rx_done"]

\* check_packets calling startReceive only on the way to
\* process_rx_lora_message.
check_packets_restart_late(g, pkt, http_code) ==
    LET done == RxDone(g)
        r    == startReceive(done)
    IN
    IF pkt = NoPacket THEN g
    ELSE IF Len(pkt.data) = 0 \/ Len(pkt.data) > LORA_MAX_PACKET_SIZE
    THEN [r EXCEPT !.ev.verdict = "ignored"]
    ELSE IF pkt.state = RADIOLIB_ERR_CRC_MISMATCH
    THEN [done EXCEPT !.stats.total_rx_invalids = @ + 1, !.ev.verdict = "crc"]
    ELSE IF pkt.state # RADIOLIB_ERR_NONE THEN [done EXCEPT !.ev.verdict = "ignored"]
    ELSE IF pkt.rssi > RSSI_LIMIT THEN [done EXCEPT !.ev.verdict = "ignored"]
    ELSE process_rx_lora_message([r EXCEPT !.stats.total_rx_packets = @ + 1],
                                 pkt.data, http_code)

check_packets(g, pkt, http_code) ==
    LET r == startReceive(RxDone(g)) IN
    IF pkt = NoPacket THEN g
    ELSE IF Len(pkt.data) = 0 \/ Len(pkt.data) > LORA_MAX_PACKET_SIZE
    THEN [r EXCEPT !.ev.verdict = "ignored"]
    ELSE IF pkt.state = RADIOLIB_ERR_CRC_MISMATCH
    THEN [r EXCEPT !.stats.total_rx_invalids = @ + 1, !.ev.verdict = "crc"]
    ELSE IF pkt.state # RADIOLIB_ERR_NONE THEN [r EXCEPT !.ev.verdict = "ignored"]
    ELSE IF pkt.rssi > RSSI_LIMIT THEN [r EXCEPT !.ev.verdict = "ignored"]
    ELSE process_rx_lora_message([r EXCEPT !.stats.total_rx_packets = @ + 1],
                                 pkt.data, http_code)

(***************************************************************************)
(* loop(): listen, batch timeout, WiFi reconnection                        *)
(***************************************************************************)
\* The timeout test written > instead of >=.
batch_timeout_strict(g, http_code) ==
    LET age == now - g.batch_start_time IN
    IF g.batch_count > 0 /\ age > BATCH_TIMEOUT_MS
    THEN flush_batch([g EXCEPT !.ev.timeout = TRUE, !.ev.age = age], http_code, "timeout")
    ELSE g

\* The timeout flush made only while the gateway is connected.
batch_timeout_online(g, http_code) ==
    LET age == now - g.batch_start_time IN
    IF g.wifi_connected /\ g.batch_count > 0 /\ age >= BATCH_TIMEOUT_MS
    THEN flush_batch([g EXCEPT !.ev.timeout = TRUE, !.ev.age = age], http_code, "timeout")
    ELSE g

\* The batch timeout test of loop(): millis() - batch_start_time >=
\* BATCH_TIMEOUT_MS on uint32_t.
batch_timeout(g, http_code) ==
    LET age == U32Sub(now, g.batch_start_time) IN
    IF g.batch_count > 0 /\ ~U32Less(age, BATCH_TIMEOUT_MS)
    THEN flush_batch([g EXCEPT !.ev.timeout = TRUE, !.ev.age = age], http_code, "timeout")
    ELSE g

\* init_wifi waits for the association; `associated` is whether WiFi.status()
\* became WL_CONNECTED before WIFI_TIMEOUT_MS ran out.
init_wifi(g, associated) == [g EXCEPT !.wifi_link = associated, !.wifi_connected = associated]

check_wifi_connection(g, associated) ==
    IF ~g.wifi_link /\ g.wifi_connected
    THEN init_wifi([g EXCEPT !.wifi_connected = FALSE, !.ev.reconnect = TRUE], associated)
    ELSE g

\* HTTP results a POST can have: 200, an error response, a failed request;
\* with the link down only the last.
HttpCodes == IF wifi_link THEN {HTTP_CODE_OK, 500, -1} ELSE {-1}

loop(g, pkt, http_code, associated) ==
    check_wifi_connection(batch_timeout(check_packets(g, pkt, http_code), http_code), associated)

\* One iteration of loop().  At most one flush runs in an iteration, so one
\* HTTP result is enough.
Iterate(pkt, http_code, associated) ==
    \E g \in {loop(Gateway, pkt, http_code, associated)} :
    /\ radio = "receive"
    /\ radio' = g.radio
    /\ status_code' = status_code
    /\ rx' = IF pkt = NoPacket THEN rx ELSE pkt
    /\ wifi_link' = g.wifi_link
    /\ wifi_connected' = g.wifi_connected
    /\ last_packets' = g.last_packets
    /\ rx_duplicate_count' = g.rx_duplicate_count
    /\ stats' = g.stats
    /\ batch_buffer' = g.batch_buffer
    /\ batch_count' = g.batch_count
    /\ batch_start_time' = g.batch_start_time
    /\ server_stats' = g.server_stats
    /\ latency' = g.latency
    /\ sampled' = g.sampled
    /\ post_ms' = post_ms
    /\ added' = g.added
    /\ forwarded' = g.forwarded
    /\ ev' = IF g.ev = NoEvent THEN ev ELSE g.ev
    /\ seen' = g.seen
    /\ cur' = g.cur
    /\ prev_key' = g.prev_key
    /\ now' = now
    /\ UNCHANGED nodevars

\* An iteration in which no reception has completed.
LoopIdle ==
    /\ \E http_code \in HttpCodes, associated \in BOOLEAN : Iterate(NoPacket, http_code, associated)
    /\ nframes' = nframes

\* An iteration that finds a completed reception.  At most `budget` packets
\* arrive, the last of them not after `until`.
LoopPacket(pkt, budget, until) ==
    /\ nframes < budget
    /\ now <= until
    /\ \E http_code \in HttpCodes, associated \in BOOLEAN : Iterate(pkt, http_code, associated)
    /\ nframes' = nframes + 1

(***************************************************************************)
(* Environment: the clock and the WiFi link                                *)
(***************************************************************************)
\* An iteration of loop() is short against TickMs: the clock and the link
\* change between iterations, which is also where the time spent in a
\* blocking POST or association of the previous iteration shows.
Tick ==
    /\ now + TickMs <= MaxTime
    /\ now' = now + TickMs
    /\ UNCHANGED << wifi_link, wifi_connected, last_packets, rx_duplicate_count, stats,
                    batch_buffer, batch_count, batch_start_time, server_stats, latency, post_ms, sampled,
                    radio,
                    status_code, nframes, added, forwarded, ev, seen, cur, prev_key, rx,
                    nodevars >>

LinkChange ==
    /\ wifi_link' = ~wifi_link
    /\ UNCHANGED << now, wifi_connected, last_packets, rx_duplicate_count, stats,
                    batch_buffer, batch_count, batch_start_time, server_stats, latency, post_ms, sampled,
                    radio,
                    status_code, nframes, added, forwarded, ev, seen, cur, prev_key, rx,
                    nodevars >>

(***************************************************************************)
(* Initial state: setup() has returned, the radio is receiving, and        *)
(* init_wifi has either associated or timed out.                           *)
(***************************************************************************)
\* The gateway when setup() is entered.
GatewayReset ==
    /\ now = 0
    /\ wifi_link \in BOOLEAN
    /\ last_packets = [i \in Slots |-> [client_id |-> 0, timestamp |-> 0, rx_time |-> 0]]
    /\ rx_duplicate_count = 0
    /\ stats = [total_rx_packets |-> 0, total_rx_valids |-> 0, total_rx_invalids |-> 0,
                total_checksum_errors |-> 0]
    /\ batch_buffer = [i \in 0 .. (BATCH_SIZE - 1) |-> EmptyString]
    /\ batch_count = 0
    /\ batch_start_time = 0
    /\ server_stats = [total |-> 0, success |-> 0, failed |-> 0]
    /\ latency = [total_ms |-> 0, samples |-> 0, min_ms |-> UINT32_MAX, max_ms |-> 0,
                  last_ms |-> 0]
    /\ post_ms = Min(PostDurations)
    /\ sampled = {}
    /\ rx = NoPacket
    /\ nframes = 0
    /\ added = << >>
    /\ forwarded = << >>
    /\ ev = NoEvent
    /\ seen = {}
    /\ cur = {}
    /\ prev_key = NoKey

GatewayInit ==
    /\ GatewayReset
    /\ wifi_connected = wifi_link
    /\ radio = "receive"
    /\ status_code = RADIOLIB_ERR_NONE

\* Nothing has been encoded.
NoEncoding == [value |-> 0, done |-> FALSE, temperature |-> 0, humidity |-> 0]

\* The statics of the node as the C runtime initialises them.
NoStats == [total |-> 0, success |-> 0, failed |-> 0, skipped |-> 0]

NoReading == [humidity |-> 0, distance |-> 0, temperature |-> 0, luminosity |-> 0]

NodeStatics ==
    /\ g_prev_humidity = 0
    /\ g_prev_distance = 0
    /\ g_tx_stats = NoStats
    /\ g_lora_ready = FALSE

\* The node before its first power-on.
NodeReset ==
    /\ NodeStatics
    /\ g_boot_count = 0
    /\ node_now = 0
    /\ reading = NoReading
    /\ should_send = FALSE
    /\ msg = << >>
    /\ attempt = 0
    /\ cycles = 0
    /\ calls = << >>
    /\ returned = "none"
    /\ at_start = NoStats
    /\ sent = NoReading

NodeIdle ==
    /\ build = [adaptive |-> FALSE, deep_sleep |-> TRUE]
    /\ pc = "off"
    /\ NodeReset

NodeOff == encoded = NoEncoding /\ NodeIdle

Init == GatewayInit /\ NodeOff

(***************************************************************************)
(* Traffic and specifications                                              *)
(***************************************************************************)
\* One node whose every reading carries a new timestamp.
SteadyFrames == {SensorFrame(1, 1000 * (nframes + 1))}

\* Readings of several nodes and their retransmissions.
Keys == {<< 0, 0 >>, << 1, 0 >>, << 1, 5000 >>, << 2, 0 >>, << 255, 2147483647 >>}

KeyedFrames == {SensorFrame(k[1], k[2]) : k \in Keys}

LoopSteady ==
    \E data \in SteadyFrames :
        LoopPacket(Packet(data, RADIOLIB_ERR_NONE, -50), MaxFramesSteady, RxUntilSteady)

LoopKeyed ==
    \E data \in KeyedFrames : LoopPacket(Packet(data, RADIOLIB_ERR_NONE, -50), MaxFrames, RxUntil)

\* The three valid frames of node 1 that the mixed traffic is derived from.
ValidFrames == {SensorFrame(1, 1000), HeartbeatFrame(1, 1000), AlertFrame(1, 1000)}

\* Values that replace the byte b at position i: the neighbour value, the
\* value with the top bit flipped and, for the type byte, every known type, 0
\* and 255.
Replacements(i, b) ==
    ({(b + 1) % 256, (b + 128) % 256} \cup
       (IF i = 1 THEN {0, MSG_TYPE_SENSOR_DATA, MSG_TYPE_HEARTBEAT, MSG_TYPE_ALERT, 255}
        ELSE {})) \ {b}

\* Valid frames, the same with one byte replaced, cut short, or one byte longer.
MixedFrames ==
    ValidFrames
      \cup {Replace(f, i, v) : << f, i, v >> \in
               UNION {UNION {{<< f, i, v >> : v \in Replacements(i, f[i])} : i \in 1 .. Len(f)}
                      : f \in ValidFrames}}
      \cup UNION {{Truncate(f, n) : n \in 0 .. (Len(f) - 1)} : f \in ValidFrames}
      \cup {Append(f, 0) : f \in ValidFrames}

LoopMixed ==
    \E data \in MixedFrames :
        LoopPacket(Packet(data, RADIOLIB_ERR_NONE, -50), MaxFramesMixed, RxUntil)

\* Field values of a SensorDataMessage at the ends of each field's width and
\* inside it (timestamps stay below 2^31).
FieldCombos ==
    [client_id : {0, 255}, timestamp : {0, 2147483647},
     temperature : {-32768, -1, 2530}, humidity : {4660, 65535},
     distance_cm : {99, 65535}, battery : {0, 255}, luminosity_lux : {500, 65535}]

\* The message transmit_sensor_data builds from the field values f.
NodeFrame(f) ==
    WithChecksum(SensorDataBody(f.client_id, f.timestamp, f.temperature, f.humidity,
                                f.distance_cm, f.battery, f.luminosity_lux))

\* The readings arrive before the first tick of the clock.
LoopFields ==
    \E f \in FieldCombos :
        LoopPacket(Packet(NodeFrame(f), RADIOLIB_ERR_NONE, -50), MaxFramesFields, 0)

\* The gateway with one steadily reporting node and an unreliable WiFi link.
Next == LoopIdle \/ LoopSteady \/ Tick \/ LinkChange

Spec == Init /\ [][Next]_vars

\* loop() is called again and again by the runtime and millis() keeps
\* advancing.
LiveSpec == Spec /\ WF_vars(LoopIdle) /\ WF_vars(Tick)

\* The gateway among several nodes, the WiFi link staying as setup() left it.
NextNodes == LoopIdle \/ LoopKeyed \/ Tick

SpecNodes == Init /\ [][NextNodes]_vars

\* The gateway receiving valid, damaged and cut frames of all three types.
NextFrames == LoopIdle \/ LoopMixed \/ Tick

SpecFrames == Init /\ [][NextFrames]_vars

\* The gateway receiving readings with field values over their whole widths.
NextFields == LoopIdle \/ LoopFields \/ Tick

SpecFields == Init /\ [][NextFields]_vars\* The next reading of node 1, and frames that fail validation: unknown type,
\* one byte short, one byte long, a payload byte changed, and nothing at all.
FaultyFrames ==
    {SensorFrame(1, 1000 * (nframes + 1)),
     Replace(SensorFrame(1, 1000 * (nframes + 1)), 1, 9),
     Truncate(SensorFrame(1, 1000 * (nframes + 1)), SIZEOF_SensorDataMessage - 1),
     Append(HeartbeatFrame(1, 1000 * (nframes + 1)), 0),
     Corrupt(SensorFrame(1, 1000 * (nframes + 1)), 7),
     Corrupt(AlertFrame(1, 1000 * (nframes + 1)), 7),
     << >>}

LoopFaulty ==
    \E data \in FaultyFrames :
        LoopPacket(Packet(data, RADIOLIB_ERR_NONE, -50), MaxFramesFaulty, RxUntil)

NextFaulty == LoopIdle \/ LoopFaulty \/ Tick

\* The gateway receiving the readings of a node among frames that fail
\* validation.
SpecFaulty == Init /\ [][NextFaulty]_vars
\* Frames of node 1 of all three types: its next reading, its first reading
\* again, a reading with a changed payload byte, a heartbeat and an alert.
TypedFrames ==
    {SensorFrame(1, 1000 * (nframes + 1)),
     SensorFrame(1, 1000),
     Corrupt(SensorFrame(1, 1000 * (nframes + 1)), 7),
     HeartbeatFrame(1, 1000 * (nframes + 1)),
     AlertFrame(1, 1000 * (nframes + 1))}

LoopTyped ==
    \E data \in TypedFrames :
        LoopPacket(Packet(data, RADIOLIB_ERR_NONE, -50), MaxFramesTyped, RxUntil)

NextTyped == LoopIdle \/ LoopTyped \/ Tick

\* The gateway receiving readings, heartbeats and alerts of one node.
SpecTyped == Init /\ [][NextTyped]_vars
\* A packet longer than the receive buffer.
Oversized == [i \in 1 .. (LORA_MAX_PACKET_SIZE + 1) |-> 0]

\* What the radio can present: the next reading of node 1 read without error
\* at an ordinary and at a very high signal level, its first reading again, a
\* reading of the wrong length, a reading whose readData reports a CRC
\* mismatch or another error (-2), an empty and an oversized packet.
RadioPackets ==
    {Packet(SensorFrame(1, 1000 * (nframes + 1)), RADIOLIB_ERR_NONE, -50),
     Packet(SensorFrame(1, 1000 * (nframes + 1)), RADIOLIB_ERR_NONE, -10),
     Packet(SensorFrame(1, 1000), RADIOLIB_ERR_NONE, -50),
     Packet(Truncate(SensorFrame(1, 1000), SIZEOF_SensorDataMessage - 1), RADIOLIB_ERR_NONE, -50),
     Packet(SensorFrame(1, 1000 * (nframes + 1)), RADIOLIB_ERR_CRC_MISMATCH, -50),
     Packet(SensorFrame(1, 1000 * (nframes + 1)), -2, -50),
     Packet(<< >>, RADIOLIB_ERR_NONE, -50),
     Packet(Oversized, RADIOLIB_ERR_NONE, -50)}

LoopRadio == \E pkt \in RadioPackets : LoopPacket(pkt, MaxFramesRadio, RxUntil)

NextRadio == LoopIdle \/ LoopRadio \/ Tick

\* The gateway with a radio that presents every kind of reception.
SpecRadio == Init /\ [][NextRadio]_vars
\* The backend answers faster or slower from one POST to the next.
ServerLoad ==
    /\ post_ms' \in PostDurations \ {post_ms}
    /\ UNCHANGED << now, wifi_link, wifi_connected, last_packets, rx_duplicate_count, stats,
                    batch_buffer, batch_count, batch_start_time, server_stats, latency, sampled,
                    radio, status_code, nframes, added, forwarded, ev, seen, cur, prev_key, rx,
                    nodevars >>

NextLatency == LoopIdle \/ LoopSteady \/ Tick \/ LinkChange \/ ServerLoad

\* The gateway of Spec with a backend of varying response time.
SpecLatency == Init /\ [][NextLatency]_vars

\* The latency object of build_gateway_stats_json; avms in thousandths of a
\* millisecond.
build_gateway_stats_json ==
    [avms |-> IF latency.samples > 0 THEN (1000 * latency.total_ms) \div latency.samples ELSE 0,
     min_ms |-> IF latency.min_ms = UINT32_MAX THEN 0 ELSE latency.min_ms,
     max_ms |-> latency.max_ms,
     last_ms |-> latency.last_ms,
     samples |-> latency.samples]
\* packet_loss_percent of build_gateway_stats_json, in thousandths.
packet_loss_percent ==
    IF stats.total_rx_packets > 0
    THEN (100000 * stats.total_rx_invalids) \div stats.total_rx_packets
    ELSE 0

\* What a counter holds when observation starts: 0 after a reset, or, on a
\* gateway that has been up for a long time, CounterHeadroom below UINT32_MAX.
CounterStarts == {0, UINT32_MAX - CounterHeadroom}

\* A gateway whose counters hold c: the frames counted so far were all of one
\* kind and the forwards all had one outcome, every POST with a response.
CountersAt(c, kind, outcome) ==
    /\ stats = [total_rx_packets |-> c,
                total_rx_valids |-> IF kind = "valid" THEN c ELSE 0,
                total_rx_invalids |-> IF kind = "invalid" THEN c ELSE 0,
                total_checksum_errors |-> IF kind = "invalid" THEN c ELSE 0]
    /\ rx_duplicate_count = (IF kind = "duplicate" THEN c ELSE 0)
    /\ server_stats = [total |-> c,
                       success |-> IF outcome = "success" THEN c ELSE 0,
                       failed |-> IF outcome = "error" THEN c ELSE 0]
    /\ latency = [total_ms |-> c, samples |-> c,
                  min_ms |-> IF c = 0 THEN UINT32_MAX ELSE Min(PostDurations),
                  max_ms |-> IF c = 0 THEN 0 ELSE Min(PostDurations),
                  last_ms |-> IF c = 0 THEN 0 ELSE Min(PostDurations)]
    /\ sampled = (IF c = 0 THEN {} ELSE {Min(PostDurations)})

InitCounters ==
    /\ \E c \in CounterStarts, kind \in {"valid", "invalid", "duplicate"},
          outcome \in {"success", "error"} : CountersAt(c, kind, outcome)
    /\ now = 0
    /\ wifi_link \in BOOLEAN
    /\ wifi_connected = wifi_link
    /\ radio = "receive"
    /\ status_code = RADIOLIB_ERR_NONE
    /\ last_packets = [i \in Slots |-> [client_id |-> 0, timestamp |-> 0, rx_time |-> 0]]
    /\ batch_buffer = [i \in 0 .. (BATCH_SIZE - 1) |-> EmptyString]
    /\ batch_count = 0
    /\ batch_start_time = 0
    /\ post_ms = Min(PostDurations)
    /\ rx = NoPacket
    /\ nframes = 0
    /\ added = << >>
    /\ forwarded = << >>
    /\ ev = NoEvent
    /\ seen = {}
    /\ cur = {}
    /\ prev_key = NoKey
    /\ NodeOff

\* The gateway of Spec observed from a reset or late in a long run.
SpecCounters == InitCounters /\ [][Next]_vars

\* millis() when observation starts, WrapLead before it wraps to 0.
ClockStart == UINT32_MAX - WrapLead + 1

\* Two readings of node 1 and their retransmissions.
WrapFrames == {SensorFrame(1, 0), SensorFrame(1, 5000)}

LoopWrap ==
    \E data \in WrapFrames :
        LoopPacket(Packet(data, RADIOLIB_ERR_NONE, -50), MaxFramesWrap, RxUntil)

\* A gateway that has been up, without traffic, until shortly before its
\* millisecond clock wraps.
InitWrap ==
    /\ CountersAt(0, "valid", "success")
    /\ now = ClockStart
    /\ wifi_link \in BOOLEAN
    /\ wifi_connected = wifi_link
    /\ radio = "receive"
    /\ status_code = RADIOLIB_ERR_NONE
    /\ last_packets = [i \in Slots |-> [client_id |-> 0, timestamp |-> 0, rx_time |-> 0]]
    /\ batch_buffer = [i \in 0 .. (BATCH_SIZE - 1) |-> EmptyString]
    /\ batch_count = 0
    /\ batch_start_time = 0
    /\ post_ms = Min(PostDurations)
    /\ rx = NoPacket
    /\ nframes = 0
    /\ added = << >>
    /\ forwarded = << >>
    /\ ev = NoEvent
    /\ seen = {}
    /\ cur = {}
    /\ prev_key = NoKey
    /\ NodeOff

NextWrap == LoopIdle \/ LoopWrap \/ Tick

\* The gateway while millis() wraps from UINT32_MAX to 0.
SpecWrap == InitWrap /\ [][NextWrap]_vars

(***************************************************************************)
(* Gateway boot: setup(), init_lora_radio / LoRaRadio::setup               *)
(***************************************************************************)
\* The results of begin(): RADIOLIB_ERR_NONE or an error code (-2 is
\* RADIOLIB_ERR_CHIP_NOT_FOUND).
BeginResults == {RADIOLIB_ERR_NONE, -2}

init_lora_radio_continue(g, result) == [g EXCEPT !.radio = "receive"]

\* init_lora_radio: startReceive on success, the endless delay loop otherwise.
init_lora_radio(g, result) ==
    IF result = RADIOLIB_ERR_NONE THEN [g EXCEPT !.radio = "receive"]
    ELSE [g EXCEPT !.radio = "halted"]

\* setup() up to its return, or up to the loop it never leaves.
Boot ==
    /\ radio = "boot"
    /\ \E result \in BeginResults, associated \in BOOLEAN :
       \E r \in {init_lora_radio(Gateway, result)} :
       \E g \in {IF r.radio = "halted" THEN r ELSE init_wifi(r, associated)} :
          /\ status_code' = result
          /\ radio' = g.radio
          /\ wifi_link' = g.wifi_link
          /\ wifi_connected' = g.wifi_connected
    /\ UNCHANGED << now, last_packets, rx_duplicate_count, stats, batch_buffer,
                    batch_count, batch_start_time, server_stats, latency, post_ms, sampled,
                    nframes, added, forwarded,
                    ev, seen, cur, prev_key, rx, nodevars >>

\* One pass of the loop of a failed initialisation: delay(1000).
Halt ==
    /\ radio = "halted"
    /\ now + 1000 <= MaxTime
    /\ now' = now + 1000
    /\ UNCHANGED << wifi_link, wifi_connected, last_packets, rx_duplicate_count, stats,
                    batch_buffer, batch_count, batch_start_time, server_stats, latency, post_ms, sampled,
                    radio,
                    status_code, nframes, added, forwarded, ev, seen, cur, prev_key, rx,
                    nodevars >>

InitBoot ==
    /\ GatewayReset
    /\ wifi_connected = FALSE
    /\ radio = "boot"
    /\ status_code = RADIOLIB_ERR_NONE
    /\ NodeOff

NextBoot == Boot \/ Halt \/ LoopIdle \/ LoopSteady \/ Tick \/ LinkChange

SpecBoot == InitBoot /\ [][NextBoot]_vars

(***************************************************************************)
(* Value encoding: encode_temperature, encode_humidity                     *)
(***************************************************************************)
\* A float argument is written in thousandths of its unit: 25557 stands for
\* 25.557.  The product with 100.0f is then value / 10 and is taken exactly.

\* The conversion of a float to an integer discards the fractional part.
Truncated(value) == IF value >= 0 THEN value \div 10 ELSE -((-value) \div 10)

\* static_cast<int16_t> / static_cast<uint16_t> of a float whose integer part
\* is t.  When t is not a value of the target type lo .. hi the behaviour is
\* undefined: a conversion through a wider integer keeps the low 16 bits, a
\* saturating conversion gives the nearer end of the range.
static_cast(lo, hi, t) ==
    IF t \in lo .. hi THEN {t}
    ELSE {lo + ((t - lo) % 65536), IF t < lo THEN lo ELSE hi}

encode_temperature(temp) == static_cast(-32768, 32767, Truncated(temp))

encode_humidity(humidity) == static_cast(0, 65535, Truncated(humidity))

\* Arguments around zero, around both ends of int16_t and around the upper
\* end of uint16_t, and three far outside.
EncodeInputs ==
    UNION {{d, 327670 + d, d - 327680, 655350 + d} : d \in (-EncodeSpan) .. EncodeSpan}
        \cup {25557, -25557, 400000, -400000, 700000}

InitEncode ==
    /\ GatewayInit
    /\ wifi_link = FALSE
    /\ NodeIdle
    /\ \E value \in EncodeInputs : encoded = [NoEncoding EXCEPT !.value = value]

\* Both encoders are applied to the argument.
Encode ==
    /\ ~encoded.done
    /\ \E t \in encode_temperature(encoded.value), h \in encode_humidity(encoded.value) :
           encoded' = [encoded EXCEPT !.done = TRUE, !.temperature = t, !.humidity = h]
    /\ UNCHANGED << gwvars, nodestate >>

NextEncode == Encode

SpecEncode == InitEncode /\ [][NextEncode]_vars

(***************************************************************************)
(* Sensor node: setup(), loop(), should_transmit, transmit_sensor_data     *)
(***************************************************************************)
\* Float readings are in thousandths of their unit, like the arguments of
\* the encoders.
Milli(x) == 1000 * x

Abs(x) == IF x < 0 THEN -x ELSE x

\* read_all_sensors: what the sensors can deliver, already constrained to
\* 0 .. 100 %, 5 .. 400 cm and -40 .. 80 degrees.
SensorReadings ==
    [humidity : {Milli(1), Milli(50), Milli(51), Milli(53)},
     distance : {Milli(8), Milli(150)},
     temperature : {25300},
     luminosity : {500}]

should_transmit_inclusive(boot_count, prev_humidity, prev_distance, humidity, distance) ==
    IF boot_count = 1 THEN TRUE
    ELSE IF boot_count % 10 = 0 THEN TRUE
    ELSE IF Abs(humidity - prev_humidity) >= Milli(HUMIDITY_CHANGE_THRESHOLD) THEN TRUE
    ELSE IF Abs(distance - prev_distance) >= Milli(DISTANCE_CHANGE_THRESHOLD) THEN TRUE
    ELSE FALSE

\* should_transmit(humidity, distance), with the globals it reads.
should_transmit(boot_count, prev_humidity, prev_distance, humidity, distance) ==
    IF boot_count = 1 THEN TRUE
    ELSE IF boot_count % 10 = 0 THEN TRUE
    ELSE IF Abs(humidity - prev_humidity) > Milli(HUMIDITY_CHANGE_THRESHOLD) THEN TRUE
    ELSE IF Abs(distance - prev_distance) > Milli(DISTANCE_CHANGE_THRESHOLD) THEN TRUE
    ELSE FALSE

\* The message transmit_sensor_data builds for a reading at time t.
BuildMessage(r, t) ==
    {NodeFrame([client_id |-> NODE_ID, timestamp |-> t, temperature |-> temp,
                humidity |-> hum, distance_cm |-> dist, battery |-> 100,
                luminosity_lux |-> r.luminosity]) :
        temp \in encode_temperature(r.temperature),
        hum \in encode_humidity(r.humidity),
        dist \in static_cast(0, 65535, r.distance \div 1000)}

\* The results of g_radio.transmit: RADIOLIB_ERR_NONE or an error code
\* (-5 is RADIOLIB_ERR_TX_TIMEOUT).
TransmitResults == {RADIOLIB_ERR_NONE, -5}

Account_twice(st, ok) ==
    IF ok THEN [st EXCEPT !.success = @ + 1, !.total = @ + 1]
    ELSE [st EXCEPT !.failed = @ + 2, !.total = @ + 1]

\* Account without the count of a successful cycle in total.
Account_uncounted(st, ok) ==
    IF ok THEN [st EXCEPT !.success = @ + 1]
    ELSE [st EXCEPT !.failed = @ + 1, !.total = @ + 1]

\* loop() after transmit_sensor_data has returned ok: the counters.
Account(st, ok) ==
    IF ok THEN [st EXCEPT !.success = @ + 1, !.total = @ + 1]
    ELSE [st EXCEPT !.failed = @ + 1, !.total = @ + 1]

\* setup(), on power-on and on every wake from deep sleep: the statics have
\* their initial values again and millis() restarts; g_boot_count is kept.
Setup ==
    /\ pc = "setup"
    /\ g_boot_count' = g_boot_count + 1
    /\ node_now' = 0
    /\ g_tx_stats' = NoStats
    /\ g_lora_ready' \in BOOLEAN
    /\ IF g_boot_count' = 1
       THEN \E r \in SensorReadings :
                /\ g_prev_humidity' = r.humidity
                /\ g_prev_distance' = r.distance
                /\ sent' = r
       ELSE /\ g_prev_humidity' = 0
            /\ g_prev_distance' = 0
            /\ sent' = sent
    /\ pc' = "loop"
    /\ UNCHANGED << build, reading, should_send, msg, attempt, cycles, calls, returned,
                    at_start >>
    /\ UNCHANGED << gwvars, encoded >>

\* loop() from its first line to the first g_radio.transmit call, or to the
\* end of the cycle when nothing is sent or the radio is not ready.
LoopBegin ==
    /\ pc = "loop"
    /\ \E r \in SensorReadings :
        \E send \in {IF build.adaptive
                      THEN should_transmit(g_boot_count, g_prev_humidity, g_prev_distance,
                                           r.humidity, r.distance)
                      ELSE TRUE} :
        /\ reading' = r
        /\ should_send' = send
        /\ cycles' = cycles + 1
        /\ at_start' = g_tx_stats
        /\ calls' = << >>
        /\ IF ~send
           THEN /\ g_tx_stats' = [g_tx_stats EXCEPT !.skipped = @ + 1, !.total = @ + 1]
                /\ returned' = "none"
                /\ pc' = "sleep"
                /\ UNCHANGED << msg, attempt >>
           ELSE IF ~g_lora_ready
           THEN /\ g_tx_stats' = Account(g_tx_stats, FALSE)
                /\ returned' = "false"
                /\ pc' = "sleep"
                /\ UNCHANGED << msg, attempt >>
           ELSE /\ msg' \in BuildMessage(r, node_now)
                /\ attempt' = 1
                /\ returned' = "none"
                /\ pc' = "retry"
                /\ UNCHANGED g_tx_stats
    /\ UNCHANGED << build, node_now, g_boot_count, g_prev_humidity, g_prev_distance,
                    g_lora_ready, sent >>
    /\ UNCHANGED << gwvars, encoded >>

\* Transmit storing the readings as the previous ones after a failed call too.
Transmit_store_always(result) ==
    /\ pc = "retry"
    /\ calls' = Append(calls, [data |-> msg, result |-> result])
    /\ IF result = RADIOLIB_ERR_NONE
       THEN /\ returned' = "true"
            /\ g_tx_stats' = Account(g_tx_stats, TRUE)
            /\ g_prev_humidity' = reading.humidity
            /\ g_prev_distance' = reading.distance
            /\ sent' = reading
            /\ pc' = "sleep"
            /\ UNCHANGED << attempt, node_now >>
       ELSE /\ node_now' = node_now + 100
            /\ attempt' = attempt + 1
            /\ IF attempt' <= TX_MAX_RETRIES
               THEN /\ pc' = "retry"
                    /\ UNCHANGED << returned, g_tx_stats >>
               ELSE /\ returned' = "false"
                    /\ g_tx_stats' = Account(g_tx_stats, FALSE)
                    /\ pc' = "sleep"
            /\ g_prev_humidity' = reading.humidity
            /\ g_prev_distance' = reading.distance
            /\ UNCHANGED sent
    /\ UNCHANGED << build, g_boot_count, g_lora_ready, reading, should_send, msg, cycles,
                    at_start >>
    /\ UNCHANGED << gwvars, encoded >>

\* One pass of the retry loop: g_radio.transmit, then either the return and
\* the rest of loop() up to the end of the cycle, or delay(100).
Transmit(result) ==
    /\ pc = "retry"
    /\ calls' = Append(calls, [data |-> msg, result |-> result])
    /\ IF result = RADIOLIB_ERR_NONE
       THEN /\ returned' = "true"
            /\ g_tx_stats' = Account(g_tx_stats, TRUE)
            /\ g_prev_humidity' = reading.humidity
            /\ g_prev_distance' = reading.distance
            /\ sent' = reading
            /\ pc' = "sleep"
            /\ UNCHANGED << attempt, node_now >>
       ELSE /\ node_now' = node_now + 100
            /\ attempt' = attempt + 1
            /\ IF attempt' <= TX_MAX_RETRIES
               THEN /\ pc' = "retry"
                    /\ UNCHANGED << returned, g_tx_stats >>
               ELSE /\ returned' = "false"
                    /\ g_tx_stats' = Account(g_tx_stats, FALSE)
                    /\ pc' = "sleep"
            /\ UNCHANGED << g_prev_humidity, g_prev_distance, sent >>
    /\ UNCHANGED << build, g_boot_count, g_lora_ready, reading, should_send, msg, cycles,
                    at_start >>
    /\ UNCHANGED << gwvars, encoded >>

Retry == \E result \in TransmitResults : Transmit(result)

\* The end of the cycle: delay(50) and deep sleep until the next boot, or
\* delay(TX_INTERVAL_MS) and the next iteration of loop().
Sleep ==
    /\ pc = "sleep"
    /\ cycles < MaxCycles
    /\ IF build.deep_sleep
       THEN /\ pc' = "setup"
            /\ node_now' = node_now + 50
       ELSE /\ pc' = "loop"
            /\ node_now' = node_now + TX_INTERVAL_MS
    /\ UNCHANGED << build, g_boot_count, g_prev_humidity, g_prev_distance, g_tx_stats,
                    g_lora_ready, reading, should_send, msg, attempt, cycles, calls, returned,
                    at_start, sent >>
    /\ UNCHANGED << gwvars, encoded >>

\* First power-on of a node in any of the four builds.
InitNode ==
    /\ GatewayInit
    /\ wifi_link = FALSE
    /\ encoded = NoEncoding
    /\ build \in [adaptive : BOOLEAN, deep_sleep : BOOLEAN]
    /\ pc = "setup"
    /\ NodeReset

NextNode == Setup \/ LoopBegin \/ Retry \/ Sleep

SpecNode == InitNode /\ [][NextNode]_vars

\* Weak fairness of LoopBegin, written out: LoopBegin is enabled exactly
\* when pc = "loop".
FairLoopBegin == []<>(pc # "loop") \/ []<><<LoopBegin>>_vars

\* The node's single thread runs whenever it can.
LiveSpecNode == SpecNode /\ WF_vars(Setup) /\ FairLoopBegin /\ WF_vars(Retry) /\ WF_vars(Sleep)

\* should_transmit as a function of its inputs: any cycle index, previous
\* values and readings on both sides of either threshold.
DecideReadings ==
    [humidity : {Milli(48) - 1, Milli(48), Milli(50), Milli(51), Milli(52), Milli(52) + 1, Milli(53)},
     distance : {Milli(140) - 1, Milli(140), Milli(150), Milli(160), Milli(160) + 1},
     temperature : {25300},
     luminosity : {500}]

InitDecide ==
    /\ GatewayInit
    /\ wifi_link = FALSE
    /\ encoded = NoEncoding
    /\ build = [adaptive |-> TRUE, deep_sleep |-> TRUE]
    /\ pc = "decide"
    /\ g_boot_count \in 1 .. MaxCycleIndex
    /\ g_prev_humidity \in {0, Milli(50)}
    /\ g_prev_distance \in {0, Milli(150)}
    /\ reading \in DecideReadings
    /\ g_tx_stats = NoStats
    /\ g_lora_ready = TRUE
    /\ node_now = 0
    /\ should_send = FALSE
    /\ msg = << >>
    /\ attempt = 0
    /\ cycles = 0
    /\ calls = << >>
    /\ returned = "none"
    /\ at_start = NoStats
    /\ sent = NoReading

Decide ==
    /\ pc = "decide"
    /\ should_send' = should_transmit(g_boot_count, g_prev_humidity, g_prev_distance,
                                      reading.humidity, reading.distance)
    /\ pc' = "decided"
    /\ UNCHANGED << build, node_now, g_boot_count, g_prev_humidity, g_prev_distance,
                    g_tx_stats, g_lora_ready, reading, msg, attempt, cycles, calls, returned,
                    at_start, sent >>
    /\ UNCHANGED << gwvars, encoded >>

NextDecide == Decide

SpecDecide == InitDecide /\ [][NextDecide]_vars

(***************************************************************************)
(* Encoding properties                                                     *)
(***************************************************************************)
\* value * 100 rounded to the nearest integer, halves away from zero.
Rounded(value) == IF value >= 0 THEN (value + 5) \div 10 ELSE -((5 - value) \div 10)

Clamped(lo, hi, t) == IF t < lo THEN lo ELSE IF t > hi THEN hi ELSE t

\* C15: encode_temperature and encode_humidity store round(value * 100)
\* clamped to the range of int16_t and uint16_t: the nearest hundredth of an
\* input in thousandths, the nearest bound for an input out of range.
C15_RoundedAndClamped ==
    encoded.done =>
        /\ encoded.temperature = Clamped(-32768, 32767, Rounded(encoded.value))
        /\ encoded.humidity = Clamped(0, 65535, Rounded(encoded.value))

(***************************************************************************)
(* Node properties                                                         *)
(***************************************************************************)
Previous(h, d) == g_prev_humidity = Milli(h) /\ g_prev_distance = Milli(d)

Reads(h, d) == reading.humidity = Milli(h) /\ reading.distance = Milli(d)

ForcedCycle == g_boot_count = 1 \/ g_boot_count % 10 = 0

\* C16: should_transmit is true exactly when the cycle index is 1 or a
\* multiple of 10, or the humidity moved by more than
\* HUMIDITY_CHANGE_THRESHOLD, or the distance by more than
\* DISTANCE_CHANGE_THRESHOLD.  With previous (50 %, 150 cm) and thresholds
\* 2 % / 10 cm: (51 %, 150 cm) is suppressed on a cycle that is neither 1
\* nor a multiple of 10 and sent on cycle 10; (53 %, 150 cm) is always sent.
C16_ShouldTransmit ==
    pc = "decided" =>
        /\ should_send <=>
               \/ ForcedCycle
               \/ Abs(reading.humidity - g_prev_humidity) > Milli(HUMIDITY_CHANGE_THRESHOLD)
               \/ Abs(reading.distance - g_prev_distance) > Milli(DISTANCE_CHANGE_THRESHOLD)
        /\ Previous(50, 150) /\ Reads(51, 150) /\ ~ForcedCycle => ~should_send
        /\ Previous(50, 150) /\ Reads(51, 150) /\ g_boot_count = 10 => should_send
        /\ Previous(50, 150) /\ Reads(53, 150) => should_send

C16_Witness ==
    /\ pc = "decided"
    /\ Previous(50, 150)
    /\ Reads(51, 150)
    /\ g_boot_count = 10
    /\ should_send

\* C17: when should_transmit is evaluated on a cycle after the first, the
\* previous humidity and distance are those of the last reading transmitted
\* successfully (the initial reading if none was), also when the cycles are
\* separated by deep sleep.
C17_PreviousIsLastSent ==
    pc = "loop" /\ build.adaptive /\ cycles >= 1 =>
        /\ g_prev_humidity = sent.humidity
        /\ g_prev_distance = sent.distance

CallAccepted(i) == calls[i].result = RADIOLIB_ERR_NONE

\* C18: for one message at most TX_MAX_RETRIES transmit calls are made, all
\* with the same bytes; success is returned right after the first accepted
\* call, with no call after it; failure is returned only after exactly
\* TX_MAX_RETRIES calls that all failed.
C18_SendWithRetry ==
    /\ Len(calls) <= TX_MAX_RETRIES
    /\ \A i \in 1 .. Len(calls) : calls[i].data = calls[1].data
    /\ \A i \in 1 .. (Len(calls) - 1) : ~CallAccepted(i)
    /\ returned = "true" <=> (calls # << >> /\ CallAccepted(Len(calls)))
    /\ returned = "false" =>
           /\ Len(calls) = TX_MAX_RETRIES
           /\ \A i \in 1 .. Len(calls) : ~CallAccepted(i)

InCycle == pc = "loop" \/ pc = "retry"

EndOfCycle == pc = "sleep"

SendFailed == pc = "sleep" /\ returned = "false"

\* C19: every cycle of the node reaches its end-of-cycle sleep or delay,
\* whatever the radio answers, and a cycle whose send failed has incremented
\* the failed counter exactly once and the success counter not at all.
C19_CycleTerminates ==
    /\ InCycle ~> EndOfCycle
    /\ [](SendFailed =>
             /\ g_tx_stats.failed = at_start.failed + 1
             /\ g_tx_stats.success = at_start.success)

C19_Witness == SendFailed /\ Len(calls) = TX_MAX_RETRIES /\ cycles > 1

(***************************************************************************)
(* Boot properties                                                         *)
(***************************************************************************)
InitFailed == status_code # RADIOLIB_ERR_NONE

\* C20: after a failed radio initialisation the gateway is halted and stays
\* halted: reception is never started, no frame is processed, and no
\* counter, the dedup table and the batch never change.
C20_HaltsOnInitFailure ==
    [][ /\ InitFailed' => radio' = "halted"
        /\ InitFailed =>
               /\ radio = "halted"
               /\ InitFailed'
               /\ UNCHANGED << stats, rx_duplicate_count, server_stats, last_packets,
                               batch_buffer, batch_count, batch_start_time, wifi_connected,
                               nframes, rx, ev, added, forwarded, seen, cur, prev_key >> ]_vars

C20_Witness == InitFailed /\ radio = "halted" /\ now >= 2000

(***************************************************************************)
(* Batcher properties                                                      *)
(***************************************************************************)
Last(seq) == seq[Len(seq)]

\* C1: the batches handed to forward_to_server so far, concatenated, followed
\* by the open batch, are exactly the records added so far, in order (nothing
\* lost, nothing twice); and a flush leaves the batch empty, so the add that
\* follows it starts a new batch.
C1_FlushAtomic ==
    /\ Flatten(forwarded) \o OpenBatch = added
    /\ (ev.capacity \/ ev.timeout) => batch_count = 0

\* A capacity flush has happened and a later add has opened a new batch.
C1_Witness ==
    /\ \E i \in 1 .. Len(forwarded) : forwarded[i].cause = "capacity"
    /\ batch_count = 1
    /\ OpenBatch = << Last(added) >>

\* C2: an add flushes exactly when it brings the batch to BATCH_SIZE records;
\* that add hands over one batch, holding the BATCH_SIZE records added since
\* the batch was empty in arrival order, and no add before it makes a capacity
\* flush.
C2_CapacityFlush ==
    [][ Len(added') = Len(added) + 1 =>
          IF batch_count + 1 = BATCH_SIZE
          THEN /\ forwarded' = Append(forwarded, [recs |-> Append(OpenBatch, Last(added')),
                                                  cause |-> "capacity"])
               /\ Last(forwarded').recs =
                      SubSeq(added', Len(added') - BATCH_SIZE + 1, Len(added'))
               /\ batch_count' = 0
          ELSE /\ \A i \in 1 .. Len(forwarded') :
                      i > Len(forwarded) => forwarded'[i].cause # "capacity"
               /\ ~ev'.capacity ]_vars

\* The last iteration added the fifth record and flushed the five.
C2_Witness ==
    /\ ev.batched /\ ev.capacity
    /\ Len(forwarded) = 1
    /\ Len(forwarded[1].recs) = BATCH_SIZE
    /\ forwarded[1].recs = added

\* C3: an iteration of loop() without a packet leaves the batch alone while it
\* is empty or younger than BATCH_TIMEOUT_MS; once the age has reached the
\* timeout it hands over the open batch in one flush and empties it, so later
\* iterations flush nothing.  A batch of one record is flushed as that record.
C3_TimeoutFlush ==
    [][ LoopIdle =>
          IF batch_count > 0 /\ now - batch_start_time >= BATCH_TIMEOUT_MS
          THEN /\ forwarded' = Append(forwarded, [recs |-> OpenBatch, cause |-> "timeout"])
               /\ batch_count' = 0
               /\ ev'.age >= BATCH_TIMEOUT_MS
          ELSE /\ forwarded' = forwarded
               /\ batch_count' = batch_count
               /\ batch_start_time' = batch_start_time ]_vars

\* One record was added, it was flushed by the timeout at the age of exactly
\* BATCH_TIMEOUT_MS, and the clock has moved on without another flush.
C3_Witness ==
    /\ Len(added) = 1
    /\ forwarded = << [recs |-> added, cause |-> "timeout"] >>
    /\ ev.timeout /\ ev.age = BATCH_TIMEOUT_MS
    /\ batch_count = 0
    /\ now >= 2 * BATCH_TIMEOUT_MS

\* C4: with loop() running forever and the clock advancing, the n-th record
\* added to the batch is eventually among the records handed to
\* forward_to_server, whether or not further records arrive.
C4_EventuallyForwarded ==
    \A n \in 1 .. MaxFramesSteady :
        (Len(added) >= n) ~> (Len(Flatten(forwarded)) >= n)

\* Everything added has been handed over, the last batch by the timeout and
\* below capacity.
C4_Witness ==
    /\ Len(added) >= 1
    /\ Len(Flatten(forwarded)) = Len(added)
    /\ Last(forwarded).cause = "timeout"
    /\ Len(Last(forwarded).recs) < BATCH_SIZE

(***************************************************************************)
(* Deduplicator properties                                                 *)
(***************************************************************************)
\* A step in which the gateway received one frame.
Rx == nframes' = nframes + 1

\* The table entry a Fresh admission of key k at time t leaves behind.
Entry(k, t) == [client_id |-> k[1], timestamp |-> k[2], rx_time |-> t]

\* The table holds an entry of node n.
InTable(table, n) == \E i \in Slots : table[i].client_id = n

\* No slot of the table is empty.
Full(table) == \A i \in Slots : table[i].client_id # 0

\* The first call for a key is Fresh; a call that repeats the key of the call
\* before it is a Duplicate exactly while less than DUPLICATE_WINDOW_MS have
\* passed since the key's admission, and Fresh again after that.
WindowRule(k) ==
    /\ k \notin seen => ev'.verdict = "fresh"
    /\ \A c \in cur :
          (prev_key = k /\ c.client_id = k[1] /\ c.timestamp = k[2]) =>
              IF now - c.at < DUPLICATE_WINDOW_MS
              THEN ev'.verdict = "duplicate"
              ELSE ev'.verdict = "fresh"

\* C5 as stated: the window rule for every key, node id 0 included.
C5_AnyKey == [][ Rx => WindowRule(ev'.key) ]_vars

\* C5: for node ids 1..255, two calls of is_duplicate with the same key less
\* than DUPLICATE_WINDOW_MS apart return Fresh then Duplicate, and a further
\* call with that key once the window since the admission has expired returns
\* Fresh again.
C5_WindowRule == [][ (Rx /\ ev'.key[1] \in 1 .. 255) => WindowRule(ev'.key) ]_vars

\* Fresh, Duplicate, and Fresh again after the window, all for one key.
C5_Witness ==
    /\ nframes = 3
    /\ seen = {ev.key}
    /\ ev.key[1] # 0
    /\ rx_duplicate_count = 1
    /\ ev.verdict = "fresh"
    /\ now >= DUPLICATE_WINDOW_MS

\* C6: a frame judged Duplicate leaves the whole dedup table unchanged, and the
\* entry of its node still carries the timestamp and the arrival time of the
\* original admission, so retransmissions do not extend the window.
C6_DuplicateKeepsEntry ==
    [][ (Rx /\ ev'.verdict = "duplicate") =>
          /\ last_packets' = last_packets
          /\ \A c \in cur :
                (c.client_id = ev'.key[1] /\ c.timestamp = ev'.key[2]) =>
                    \E i \in Slots : last_packets'[i] = Entry(ev'.key, c.at) ]_vars

\* The second retransmission of a burst, judged later than the admission.
C6_Witness ==
    /\ ev.verdict = "duplicate"
    /\ rx_duplicate_count >= 2
    /\ seen = {ev.key}
    /\ \E c \in cur : /\ c.client_id = ev.key[1]
                      /\ c.at < now
                      /\ \E i \in Slots : last_packets[i] = Entry(ev.key, c.at)

\* The first frame of a node is admitted Fresh and stored with its timestamp
\* and the time of arrival.
FirstFrameRule(k) ==
    (\A q \in seen : q[1] # k[1]) =>
        /\ ev'.verdict = "fresh"
        /\ \E i \in Slots : last_packets'[i] = Entry(k, now)

\* C7 as stated: the first-frame rule for every value of the id byte.
C7_AnyId == [][ Rx => FirstFrameRule(ev'.key) ]_vars

\* C7: the first valid SensorData frame of a node with id 1..255 is admitted
\* Fresh whatever its timestamp and the gateway uptime, and the table then
\* holds (timestamp, now) for that node.
C7_FirstFrameFresh == [][ (Rx /\ ev'.key[1] \in 1 .. 255) => FirstFrameRule(ev'.key) ]_vars

\* Node 255 is seen for the first time, with the largest timestamp of the
\* traffic, after the clock has advanced and with the table already full.
C7_Witness ==
    /\ ev.key = << 255, 2147483647 >>
    /\ ev.verdict = "fresh"
    /\ now > 0
    /\ nframes = Cardinality(seen)
    /\ Cardinality({q[1] : q \in seen} \ {0}) > MAX_CLIENTS
    /\ \E i \in Slots : last_packets[i] = Entry(ev.key, now)

\* The frame comes from a node that is not in the table, and the table is full.
Evicting(n) == ~InTable(last_packets, n) /\ Full(last_packets)

\* C8 as stated: the overwritten slot is one whose entry is the least recently
\* updated; all other entries are kept.
C8_EvictsLeastRecent ==
    [][ (Rx /\ Evicting(ev'.key[1])) =>
          \E i \in Slots :
              /\ \A j \in Slots : last_packets[i].rx_time <= last_packets[j].rx_time
              /\ last_packets' = [last_packets EXCEPT ![i] = Entry(ev'.key, now)] ]_vars

\* C8: a frame of a node that is not in the full table overwrites the first
\* slot, however recently that slot was updated; the other slots are kept.
C8_EvictsFirstSlot ==
    [][ (Rx /\ Evicting(ev'.key[1])) =>
          last_packets' = [last_packets EXCEPT ![0] = Entry(ev'.key, now)] ]_vars

\* The first slot now holds the node of the last frame, and a node that lost
\* its entry had been admitted later than a node that kept its own.
C8_Witness ==
    /\ ev.verdict = "fresh"
    /\ last_packets[0] = Entry(ev.key, now)
    /\ Full(last_packets)
    /\ \E c \in cur : /\ c.client_id # 0
                      /\ ~InTable(last_packets, c.client_id)
                      /\ \E j \in Slots \ {0} : last_packets[j].rx_time < c.at

\* A frame repeats the key of the standing admission of its node, within the
\* window of that admission.
Retransmission(k) ==
    \E c \in cur : /\ c.client_id = k[1]
                   /\ c.timestamp = k[2]
                   /\ now - c.at < DUPLICATE_WINDOW_MS

\* C9 as stated: every retransmission within the window is a Duplicate and is
\* not handled, for any number of nodes and any interleaving.
C9_AnyInterleaving ==
    [][ (Rx /\ Retransmission(ev'.key)) =>
          (ev'.verdict = "duplicate" /\ ~ev'.handled) ]_vars

\* C9: a retransmission within the window of a node with id 1..255 whose entry
\* is still in the table is a Duplicate and is not passed to
\* handle_sensor_data, whatever frames of other nodes are interleaved.
C9_NoDoubleCount ==
    [][ (Rx /\ Retransmission(ev'.key) /\ ev'.key[1] \in 1 .. 255
            /\ InTable(last_packets, ev'.key[1])) =>
          (ev'.verdict = "duplicate" /\ ~ev'.handled) ]_vars

\* A retransmission was rejected although another node had been admitted after
\* the original.
C9_Witness ==
    /\ ev.verdict = "duplicate" /\ ~ev.handled
    /\ ev.key[1] # 0
    /\ \E c \in cur, d \in cur : /\ c.client_id = ev.key[1]
                                 /\ c.timestamp = ev.key[2]
                                 /\ d.client_id \notin {0, c.client_id}
                                 /\ d.at > c.at

\* C10: a SensorData frame that passed validation and was admitted Fresh has
\* been appended to the batch.
C10_FreshIsBatched == ev.verdict = "fresh" => ev.batched

(***************************************************************************)
(* Validation properties                                                   *)
(***************************************************************************)
\* The fixed size of the message type t, 0 for an unknown type.
SizeOfType(t) ==
    IF t = MSG_TYPE_SENSOR_DATA THEN SIZEOF_SensorDataMessage
    ELSE IF t = MSG_TYPE_HEARTBEAT THEN SIZEOF_HeartbeatMessage
    ELSE IF t = MSG_TYPE_ALERT THEN SIZEOF_AlertMessage
    ELSE 0

\* The last byte of data is the XOR of the bytes before it.
ChecksumOk(data) == data[Len(data)] = XorUpTo(data, Len(data) - 1)

\* The counters of the receiver moved by exactly these amounts.
Counted(valids, invalids, checksums) ==
    /\ stats'.total_rx_valids = stats.total_rx_valids + valids
    /\ stats'.total_rx_invalids = stats.total_rx_invalids + invalids
    /\ stats'.total_checksum_errors = stats.total_checksum_errors + checksums

\* Dedup table and batch are as they were.
Untouched ==
    /\ last_packets' = last_packets
    /\ added' = added
    /\ ~ev'.handled /\ ~ev'.batched

\* C11: a frame of a known type and of that type's size whose last byte is not
\* the XOR of the others adds one to the checksum-error counter and nothing to
\* the valid counter; a frame of unknown type or of a wrong length adds one to
\* the invalid counter and nothing to the checksum-error counter.
C11_ChecksumErrorCounted ==
    [][ (Rx /\ Len(rx'.data) >= 1) =>
          LET data == rx'.data
              size == SizeOfType(data[1])
          IN  IF Len(data) = size
              THEN ~ChecksumOk(data) =>
                       /\ stats'.total_checksum_errors = stats.total_checksum_errors + 1
                       /\ stats'.total_rx_valids = stats.total_rx_valids
              ELSE /\ stats'.total_rx_invalids = stats.total_rx_invalids + 1
                   /\ stats'.total_checksum_errors = stats.total_checksum_errors ]_vars

\* data is the valid frame f with exactly one byte replaced.
OneByteReplaced(data, f) ==
    /\ Len(data) = Len(f)
    /\ Cardinality({i \in 1 .. Len(f) : data[i] # f[i]}) = 1

\* C12: a valid frame of any type with one byte replaced by another value is
\* rejected as a checksum mismatch: the checksum-error counter goes up by one
\* and the frame is neither counted valid nor batched.
C12_ByteFlipIsChecksumError ==
    [][ (Rx /\ \E f \in ValidFrames : OneByteReplaced(rx'.data, f)) =>
          /\ stats'.total_checksum_errors = stats.total_checksum_errors + 1
          /\ stats'.total_rx_valids = stats.total_rx_valids
          /\ Untouched ]_vars

\* data is a valid frame cut to a shorter length within lens.
CutFrame(data, lens) ==
    \E f \in ValidFrames : Len(data) < Len(f) /\ Len(data) \in lens /\ data = Truncate(f, Len(data))

\* A cut frame is counted invalid and nothing else, and its checksum is never
\* computed.
CutIsInvalid == Counted(0, 1, 0) /\ Untouched /\ ~ev'.verified

\* C13 as stated: a valid frame cut to any shorter length, 0 included, is
\* counted invalid.
C13_AnyShorterLength ==
    [][ (Rx /\ CutFrame(rx'.data, 0 .. LORA_MAX_PACKET_SIZE)) => CutIsInvalid ]_vars

\* C13: a valid frame cut to a shorter length of at least one byte is counted
\* invalid, never valid, never a checksum error, never admitted to dedup or
\* batch, and verify_checksum is not evaluated on it; cut to length 0 it is
\* discarded by check_packets before any counter changes.
C13_CutFrameInvalid ==
    [][ /\ (Rx /\ CutFrame(rx'.data, 1 .. LORA_MAX_PACKET_SIZE)) => CutIsInvalid
        /\ (Rx /\ rx'.data = << >>) =>
               (stats' = stats /\ Untouched /\ ~ev'.verified /\ ev'.verdict = "ignored") ]_vars

\* A heartbeat that lost its last byte has been counted invalid, unverified.
C13_Witness ==
    /\ rx.data = Truncate(HeartbeatFrame(1, 1000), SIZEOF_HeartbeatMessage - 1)
    /\ ev.verdict = "invalid" /\ ~ev.verified
    /\ stats.total_rx_invalids = 1
    /\ stats.total_rx_valids = 0 /\ stats.total_checksum_errors = 0

(***************************************************************************)
(* Round trip of a SensorDataMessage                                       *)
(***************************************************************************)
\* The frame passed validation: it is neither invalid nor a checksum error.
Accepted == ev'.verdict \in {"fresh", "duplicate"}

\* The field values are within the widths of the fields of the struct.
InWidth(f) ==
    /\ f.client_id \in 0 .. 255 /\ f.battery \in 0 .. 255
    /\ f.timestamp >= 0
    /\ f.temperature \in -32768 .. 32767
    /\ f.humidity \in 0 .. 65535
    /\ f.distance_cm \in 0 .. 65535 /\ f.luminosity_lux \in 0 .. 65535

\* The gateway read for dedup the key that the frame carries and, when it
\* handled the reading, values within the field widths which the node's
\* encoder turns into exactly the frame received: the encoder is one-to-one
\* on values within the widths, so these are the values the node put in.
ReadBack ==
    /\ ev'.key[1] \in 0 .. 255 /\ ev'.key[2] >= 0
    /\ SubSeq(rx'.data, 2, 6) = << ev'.key[1] >> \o LE32(ev'.key[2])
    /\ ev'.verdict = "fresh" =>
          /\ ev'.handled
          /\ InWidth(ev'.json)
          /\ NodeFrame(ev'.json) = rx'.data

\* The frame has `size` bytes, went through validation and was read back
\* unchanged.
RoundTrip(size) == Len(rx'.data) = size /\ Accepted /\ ReadBack

\* C14 as stated: the node's frame is the packed 16-byte layout, is accepted
\* and is read back field by field.
C14_RoundTrip16 == [][ Rx => RoundTrip(16) ]_vars

\* C14: for all field values within the field widths the frame the node
\* builds, which is the packed 17-byte layout with the XOR checksum in the
\* last byte, passes the gateway's validation, and the gateway reads back the
\* same value for every field.
C14_RoundTrip == [][ Rx => RoundTrip(SIZEOF_SensorDataMessage) ]_vars

\* A reading with the extreme value in every field was handled.
C14_Witness ==
    /\ ev.verdict = "fresh" /\ ev.handled
    /\ Len(rx.data) = 17
    /\ ev.json = [client_id |-> 255, timestamp |-> 2147483647, temperature |-> -32768,
                  humidity |-> 65535, distance_cm |-> 65535, luminosity_lux |-> 65535,
                  presence |-> FALSE, battery |-> 255]

(***************************************************************************)
(* Node start-up properties                                                *)
(***************************************************************************)
RadioInitFailed == pc # "setup" /\ ~g_lora_ready

\* C21: after a failed init_lora_radio the node halts: no sensor cycle is
\* executed, no send is attempted and no transmission statistic changes.
C21_NodeHaltsOnInitFailure ==
    [][ RadioInitFailed => UNCHANGED << pc, g_tx_stats, cycles, reading, calls, returned >> ]_vars

(***************************************************************************)
(* Forwarding properties                                                   *)
(***************************************************************************)
Range(seq) == {seq[i] : i \in 1 .. Len(seq)}

\* The records of the batches handed to forward_to_server so far.
Handed == UNION {Range(forwarded[i].recs) : i \in 1 .. Len(forwarded)}

Flushes == Len(forwarded') = Len(forwarded) + 1

ForwardOutcomes == {"skipped", "success", "error", "failed"}

\* C22: a flush hands the open batch over once, whatever forward_to_server
\* makes of it (success, HTTP error response, transport failure, no
\* connection): when it returns the batch is empty, and the records it handed
\* over are in no earlier batch and in no later one.
C22_HandedOverOnce ==
    [][ /\ Len(forwarded') \in {Len(forwarded), Len(forwarded) + 1}
        /\ Flushes =>
              /\ ev'.posted \in ForwardOutcomes
              /\ batch_count' = 0
              /\ Range(Last(forwarded').recs) \cap Handed = {}
        /\ Range(OpenBatch') \cap Handed' = {} ]_vars

\* A batch was handed over and its POST failed; records that arrived later
\* have been handed over in a second batch, successfully.
C22_Witness ==
    /\ Len(forwarded) = 2
    /\ server_stats = [total |-> 2, success |-> 1, failed |-> 1]
    /\ ev.posted = "success"
    /\ batch_count = 0

\* C23: every flush of a non-empty batch is one forward attempt recorded in
\* server_stats, whatever the state of the connection: total grows by one and
\* exactly one of success and failed grows by one.
C23_FlushIsCounted ==
    [][ Flushes =>
          /\ server_stats'.total = server_stats.total + 1
          /\ \/ /\ server_stats'.success = server_stats.success + 1
                /\ server_stats'.failed = server_stats.failed
             \/ /\ server_stats'.success = server_stats.success
                /\ server_stats'.failed = server_stats.failed + 1 ]_vars

(***************************************************************************)
(* Counter properties                                                      *)
(***************************************************************************)
\* The gateway's counters.
Counters ==
    << stats.total_rx_packets, stats.total_rx_valids, stats.total_rx_invalids,
       stats.total_checksum_errors, rx_duplicate_count,
       server_stats.total, server_stats.success, server_stats.failed,
       latency.samples, latency.total_ms >>

\* C24: no gateway counter ever decreases, as unsigned 32-bit values: one
\* that holds UINT32_MAX stays there when it is incremented.
C24_CountersSaturate ==
    [][ \A i \in 1 .. Len(Counters) : ~U32Less(Counters'[i], Counters[i]) ]_vars

(***************************************************************************)
(* Latency properties                                                      *)
(***************************************************************************)
LatencyConsistent ==
    /\ sampled = {} => /\ latency.samples = 0
                       /\ latency.min_ms = UINT32_MAX
                       /\ build_gateway_stats_json.min_ms = 0
    /\ latency.samples > 0 =>
          /\ ~U32Less(latency.max_ms, latency.min_ms)
          /\ latency.min_ms \in sampled
          /\ latency.max_ms \in sampled
          /\ build_gateway_stats_json.min_ms = latency.min_ms
          /\ build_gateway_stats_json.avms * latency.samples <= 1000 * latency.total_ms
          /\ 1000 * latency.total_ms < (build_gateway_stats_json.avms + 1) * latency.samples
    /\ latency.samples = 0 => build_gateway_stats_json.avms = 0

\* C25: min_ms never increases and max_ms never decreases; while no sample
\* has been recorded min_ms is UINT32_MAX and is reported as 0; once there
\* are samples min_ms <= max_ms and each is the latency of a recorded sample;
\* the reported average is total_ms / samples, and 0 without samples.
C25_LatencyBounds ==
    /\ []LatencyConsistent
    /\ [][ /\ ~U32Less(latency.min_ms, latency'.min_ms)
            /\ ~U32Less(latency'.max_ms, latency.max_ms) ]_vars

\* A fast and a slow POST have been sampled.
C25_Witness ==
    /\ latency.samples = 2
    /\ latency.min_ms = Min(PostDurations)
    /\ latency.max_ms > latency.min_ms
    /\ sampled = PostDurations
    /\ server_stats.total = 2
    /\ 2 * build_gateway_stats_json.avms = 1000 * (latency.min_ms + latency.max_ms)

(***************************************************************************)
(* Node timestamp properties                                               *)
(***************************************************************************)
\* The timestamp field of a SensorDataMessage.
TimestampOf(data) == ReadLE32(data, 2)

\* loop() builds a message and the message of the cycle before went out.
BuildsNextMessage == pc = "loop" /\ pc' = "retry" /\ returned = "true"

\* C26: the message a node builds carries a larger timestamp than the message
\* it sent in the cycle before, with and without deep sleep between the two,
\* so that the two never have the same (client_id, timestamp).
C26_TimestampIncreases ==
    [][ BuildsNextMessage => TimestampOf(msg') > TimestampOf(msg) ]_vars

(***************************************************************************)
(* Batch buffer properties                                                 *)
(***************************************************************************)
Adds == Len(added') = Len(added) + 1

\* C27: between the operations of the gateway the one open batch holds fewer
\* than BATCH_SIZE records; every add_to_batch writes its record into a slot
\* of batch_buffer, and no batch handed over has more than BATCH_SIZE records.
C27_BatchWithinBuffer ==
    /\ [](/\ batch_count \in 0 .. (BATCH_SIZE - 1)
          /\ \A i \in 1 .. Len(forwarded) : Len(forwarded[i].recs) \in 1 .. BATCH_SIZE)
    /\ [][ Adds => /\ batch_count \in DOMAIN batch_buffer
                    /\ batch_buffer'[batch_count] = Last(added') ]_vars

\* The last slot of the buffer was written by the add that filled the batch,
\* and the full batch was handed over.
C27_Witness ==
    /\ ev.batched /\ ev.capacity
    /\ batch_count = 0
    /\ batch_buffer[BATCH_SIZE - 1] = Last(added)
    /\ Len(Last(forwarded).recs) = BATCH_SIZE

(***************************************************************************)
(* Rejected frames                                                         *)
(***************************************************************************)
\* The frame is empty, of unknown type, of the wrong length for its type, or
\* its checksum does not match.
FailsValidation(data) ==
    \/ Len(data) = 0
    \/ SizeOfType(data[1]) # Len(data)
    \/ ~ChecksumOk(data)

\* The frame before this one failed validation.
AfterRejected == rx # NoPacket /\ FailsValidation(rx.data)

\* C28: the iteration of loop() that receives a frame failing validation
\* leaves the dedup table, the open batch, its opening time, the valid
\* counter and the server and latency statistics as they were; and the
\* reading that arrives after such a frame is admitted as Fresh, counted
\* valid, and batched as it is while the gateway is connected.
C28_RejectedFrameEffect ==
    [][ /\ (Rx /\ FailsValidation(rx'.data) /\ ~ev'.timeout) =>
              /\ UNCHANGED << last_packets, batch_buffer, batch_count, batch_start_time,
                              server_stats, latency, added, forwarded, rx_duplicate_count >>
              /\ stats'.total_rx_valids = stats.total_rx_valids
              /\ ~ev'.handled /\ ~ev'.batched
        /\ (Rx /\ AfterRejected /\ ~FailsValidation(rx'.data)) =>
              /\ ev'.verdict = "fresh"
              /\ stats'.total_rx_valids = stats.total_rx_valids + 1
              /\ last_packets' # last_packets
              /\ wifi_connected => /\ Adds
                                   /\ batch_buffer'[batch_count] = ev'.json ]_vars

\* A reading was batched, then a frame with a changed payload byte was
\* rejected as a checksum error, then the next reading joined the batch.
C28_Witness ==
    /\ nframes = 3
    /\ stats = [total_rx_packets |-> 3, total_rx_valids |-> 2, total_rx_invalids |-> 1,
                total_checksum_errors |-> 1]
    /\ ev.verdict = "fresh"
    /\ batch_count = 2
    /\ OpenBatch[1].timestamp = 1000 /\ OpenBatch[2].timestamp = 3000

(***************************************************************************)
(* Latest key per node                                                     *)
(***************************************************************************)
\* The entry of node n that is_duplicate finds holds another timestamp than ts.
StoredDiffers(n, ts) ==
    \E i \in Slots : /\ last_packets[i].client_id = n
                     /\ \A j \in Slots : last_packets[j].client_id = n => i <= j
                     /\ last_packets[i].timestamp # ts

\* C29: a frame whose timestamp differs from the one stored for its node is
\* Fresh whatever the age of the entry, and the entry then holds (timestamp,
\* now); the table keeps one key per node, the latest, so that t1, t2, t1
\* from one node within the window are three Fresh frames.
C29_LatestKeyOnly ==
    [][ (Rx /\ ev'.verified /\ StoredDiffers(ev'.key[1], ev'.key[2])) =>
          /\ ev'.verdict = "fresh"
          /\ \E i \in Slots : last_packets'[i] = Entry(ev'.key, now)
          /\ ev'.key[1] # 0 =>
                Cardinality({i \in Slots : last_packets'[i].client_id = ev'.key[1]}) = 1 ]_vars

\* Node 1 sent t1, t2 and t1 again, all inside the window of the first, and
\* all three were Fresh.
C29_Witness ==
    /\ nframes = 3
    /\ seen = {<< 1, 0 >>, << 1, 5000 >>}
    /\ ev.key = << 1, 0 >> /\ ev.verdict = "fresh"
    /\ stats.total_rx_valids = 3 /\ rx_duplicate_count = 0
    /\ now < DUPLICATE_WINDOW_MS
    /\ \E i \in Slots : last_packets[i] = Entry(ev.key, now)

(***************************************************************************)
(* Batch-open time                                                         *)
(***************************************************************************)
\* C30: batch_start_time is set to the time of the add that makes the batch
\* non-empty; the later adds to that batch and the iterations that add
\* nothing leave it as it is until the batch is flushed, so that the age the
\* timeout tests is the time since the oldest record of the batch arrived.
C30_StampedByFirstAdd ==
    [][ IF Flushes
        THEN /\ batch_count' = 0 /\ batch_start_time' = 0
             /\ ev'.timeout => ev'.age = now - batch_start_time
        ELSE IF Adds /\ batch_count = 0 THEN batch_start_time' = now
        ELSE batch_start_time' = batch_start_time ]_vars

\* The open batch holds two records; the second arrived later than the first
\* and the batch still carries the arrival time of the first.
C30_Witness ==
    /\ batch_count = 2
    /\ ev.batched
    /\ \E i \in Slots : /\ last_packets[i].timestamp = OpenBatch[2].timestamp
                         /\ last_packets[i].rx_time > batch_start_time
    /\ now - batch_start_time < BATCH_TIMEOUT_MS

(***************************************************************************)
(* Previous readings within a session                                      *)
(***************************************************************************)
\* The g_radio.transmit call of this step was accepted.
SendSucceeds == pc = "retry" /\ returned' = "true"

\* C31: between two boots the previous humidity and distance change only in
\* the step in which the transmission of a cycle succeeds, and they become
\* the readings of that cycle; a cycle that should_transmit suppresses and a
\* cycle whose attempts all fail leave them as they were.
C31_PreviousOnlyOnSuccess ==
    [][ pc # "setup" =>
          IF SendSucceeds
          THEN /\ g_prev_humidity' = reading.humidity
               /\ g_prev_distance' = reading.distance
          ELSE UNCHANGED << g_prev_humidity, g_prev_distance >> ]_vars

\* In a session without deep sleep a reading was sent, and the cycle of
\* another reading failed after all its attempts: the previous values are
\* still those of the reading that was sent.
C31_Witness ==
    /\ ~build.deep_sleep
    /\ SendFailed /\ Len(calls) = TX_MAX_RETRIES
    /\ g_tx_stats.success >= 1
    /\ reading.humidity # sent.humidity
    /\ g_prev_humidity = sent.humidity /\ g_prev_distance = sent.distance

(***************************************************************************)
(* Origin of the batch records                                             *)
(***************************************************************************)
\* The frame has the type and the length of a SensorDataMessage and a
\* matching checksum.
ValidSensorData(data) ==
    /\ Len(data) = SIZEOF_SensorDataMessage
    /\ data[1] = MSG_TYPE_SENSOR_DATA
    /\ ChecksumOk(data)

\* The frame is a Heartbeat or an Alert of the right length with a matching
\* checksum.
ValidStatusFrame(data) ==
    /\ Len(data) > 0
    /\ data[1] \in {MSG_TYPE_HEARTBEAT, MSG_TYPE_ALERT}
    /\ ~FailsValidation(data)

\* C32: a record enters the batch only in the iteration that received a
\* SensorData frame of the right length with a matching checksum which was
\* admitted Fresh, and it is the record of that frame; a valid Heartbeat or
\* Alert is counted valid, adds no record, and is_duplicate is not called for
\* it: the dedup table and the duplicate counter stay as they were.
C32_BatchOfFreshReadings ==
    [][ /\ Len(added') \in {Len(added), Len(added) + 1}
        /\ Adds =>
              /\ Rx /\ ValidSensorData(rx'.data)
              /\ ev'.verdict = "fresh"
              /\ Last(added') = build_sensor_json(rx'.data)
        /\ (Rx /\ ValidStatusFrame(rx'.data)) =>
              /\ stats'.total_rx_valids = stats.total_rx_valids + 1
              /\ ~Adds
              /\ UNCHANGED << last_packets, seen, cur, rx_duplicate_count, batch_count,
                              batch_buffer >> ]_vars

\* A reading, a heartbeat and an alert of one node were all counted valid;
\* the batch holds the reading alone and is_duplicate has seen one key.
C32_Witness ==
    /\ nframes = 3
    /\ ev.verdict = "alert"
    /\ stats.total_rx_valids = 3
    /\ Len(added) = 1 /\ batch_count = 1
    /\ Cardinality(seen) = 1

(***************************************************************************)
(* Receive loop properties                                                 *)
(***************************************************************************)
\* C33: whatever the completed reception was (empty or oversized, CRC
\* mismatch, another read error, filtered by its RSSI, invalid, duplicate or
\* valid), the radio is in receive mode again when check_packets has
\* returned, so that the frames which follow are received.
C33_BackInReceive == [][ Rx => radio' = "receive" ]_vars

\* A reading was admitted after a CRC mismatch and a packet that was ignored.
C33_Witness ==
    /\ nframes = 3
    /\ radio = "receive"
    /\ ev.verdict = "fresh"
    /\ stats = [total_rx_packets |-> 1, total_rx_valids |-> 1, total_rx_invalids |-> 1,
                total_checksum_errors |-> 0]

(***************************************************************************)
(* WiFi recovery                                                           *)
(***************************************************************************)
\* C34: from any moment after which the WiFi link stays available, the
\* gateway eventually has its connected flag set (and with it batches and
\* forwards readings again), also when a reconnection attempt has timed out
\* or the connection at boot has failed.
C34_WifiRecovers == []([]wifi_link => <>wifi_connected)

\* C35: the packets counted valid, invalid and duplicate add up to the
\* packets counted in total, so the invalid ones are never more than the
\* total and the reported packet loss is never above 100 %.
C35_TotalIsSum ==
    /\ stats.total_rx_packets =
           stats.total_rx_valids + stats.total_rx_invalids + rx_duplicate_count
    /\ stats.total_rx_invalids <= stats.total_rx_packets
    /\ packet_loss_percent <= 100000

\* The verdicts of process_rx_lora_message.
Processed == {"invalid", "checksum", "duplicate", "fresh", "heartbeat", "alert"}

\* C36: a packet that readData returns without error and whose length is in
\* 1 .. LORA_MAX_PACKET_SIZE is counted in total_rx_packets and handed to
\* process_rx_lora_message, whatever its signal level.
C36_EveryReadPacketCounted ==
    [][ (Rx /\ rx'.state = RADIOLIB_ERR_NONE
            /\ Len(rx'.data) \in 1 .. LORA_MAX_PACKET_SIZE) =>
          /\ stats'.total_rx_packets = stats.total_rx_packets + 1
          /\ ev'.verdict \in Processed ]_vars

(***************************************************************************)
(* Node counters                                                           *)
(***************************************************************************)
\* The number of the three counters that are one above their value at the
\* start of the cycle, none of them being anything else than that or equal.
Incremented ==
    LET steps == << g_tx_stats.success - at_start.success,
                    g_tx_stats.failed - at_start.failed,
                    g_tx_stats.skipped - at_start.skipped >>
    IN  IF \A i \in 1 .. 3 : steps[i] \in {0, 1}
        THEN steps[1] + steps[2] + steps[3]
        ELSE -1

\* C37: between two boots the node's total is the sum of its success, failed
\* and skipped counters whenever an iteration of loop() has ended, and the
\* iteration has added one to the total and to exactly one of the three.
C37_TotalIsSum ==
    EndOfCycle =>
        /\ g_tx_stats.total = g_tx_stats.success + g_tx_stats.failed + g_tx_stats.skipped
        /\ g_tx_stats.total = at_start.total + 1
        /\ Incremented = 1

\* The third iteration of a session without deep sleep has ended; the session
\* has seen successful and failed cycles.
C37_Witness ==
    /\ EndOfCycle /\ ~build.deep_sleep
    /\ g_tx_stats.total = 3
    /\ g_tx_stats.success >= 1 /\ g_tx_stats.failed >= 1

\* C38: the cycle index should_transmit reads, g_boot_count, is the number of
\* the send cycle being executed: it grows by one from each cycle to the
\* next, with deep sleep between the cycles and with the plain delay, so that
\* cycle 1 occurs once and every tenth cycle is forced.
C38_CycleIndex == (pc = "retry" \/ pc = "sleep") => g_boot_count = cycles

(***************************************************************************)
(* Clock wrap                                                              *)
(***************************************************************************)
\* The time since observation started on a clock that does not wrap, for a
\* value t that millis() took since then.
Uptime(t) == IF t < ClockStart THEN -1 ELSE t - ClockStart

\* The entry is_duplicate finds for node n, written by an admission.
StoredAdmission(i, n) ==
    /\ last_packets[i].client_id = n
    /\ \A j \in Slots : last_packets[j].client_id = n => i <= j
    /\ \E c \in cur : /\ c.client_id = n
                       /\ c.timestamp = last_packets[i].timestamp
                       /\ c.at = last_packets[i].rx_time

\* C39: the two age tests decide as they would on a clock that never wraps,
\* also when millis() has wrapped between the stored time and now: an idle
\* iteration flushes the open batch exactly when its true age has reached
\* BATCH_TIMEOUT_MS, and a frame that repeats the stored key of its node is
\* a Duplicate exactly when the true age of the entry is below
\* DUPLICATE_WINDOW_MS.
C39_AgeTestsAcrossWrap ==
    [][ /\ (LoopIdle /\ batch_count > 0) =>
              (Flushes <=> Uptime(now) - Uptime(batch_start_time) >= BATCH_TIMEOUT_MS)
        /\ Rx => \A i \in Slots :
              (StoredAdmission(i, ev'.key[1]) /\ last_packets[i].timestamp = ev'.key[2]) =>
                  (ev'.verdict = "duplicate" <=>
                       Uptime(now) - Uptime(last_packets[i].rx_time) < DUPLICATE_WINDOW_MS) ]_vars

\* A batch opened before the wrap was flushed after it, at the age of
\* exactly BATCH_TIMEOUT_MS, and a retransmission was rejected.
C39_Witness ==
    /\ ev.timeout /\ ev.age = BATCH_TIMEOUT_MS
    /\ now >= 0 /\ U32Sub(now, ev.age) < 0
    /\ forwarded # << >> /\ Last(forwarded).cause = "timeout"
    /\ rx_duplicate_count >= 1

====
